---- MODULE Spec2Model ----
(***************************************************************************)
(* A model of the sequence / regular-expression rewriter                   *)
(* (src/src/ast/rewriter/seq_rewriter.cpp).                                *)
(*                                                                         *)
(* Terms are tuples whose first component is the operator tag, so that     *)
(* structural equality of tuples is the identity of hash-consed terms.     *)
(*   characters : <<"c", code>>  (a character constant)                    *)
(*                <<"v", k>>     (a symbolic character)                    *)
(*   sequences  : <<"unit", ch>>, <<"str", s>> (s a tuple of codes),       *)
(*                <<"empty">>, <<"var", k>>, <<"itos", <<"ivar", k>>>>,    *)
(*                <<"seq.++", a, b>>                                       *)
(***************************************************************************)
EXTENDS Integers, Sequences, FiniteSets, TLC

VARIABLES
    eq_ls,      \* operands of the left side of the equation  (get_concat(l))
    eq_rs,      \* operands of the right side of the equation (get_concat(r))
    eq_done,    \* mk_eq_core has been applied to eq_ls = eq_rs
    eq_red,     \* what reduce_eq(l, r, new_eqs, changed) returned
    eq_core,    \* what mk_eq_core(l, r, result) returned
    m_op_cache,        \* m_table of the operation cache
    find_stores,       \* the table lookup of op_cache::find fills in the entry
    arg_order,         \* order in which the build evaluates function arguments
    m_coalesce_chars,  \* the coalesce_chars parameter
    m_sa,              \* re2automaton::m_sa is set (set_solver has been called)
    re_r,       \* the regex term handed to the rewriter
    re_b,       \* the second regex term handed to combine_ites
    re_ops,     \* operators applied so far to build re_r
    re_call,    \* the last call made on re_r and what it returned
    ex_a,       \* the sequence term of (seq.extract a b c)
    ex_b,       \* its position term
    ex_c,       \* its length term
    ex_call,    \* what mk_seq_extract(a, b, c, result) returned
    app_f,      \* the operator of the application handed to the rewriter
    app_args,   \* its arguments
    app_call    \* what the rewriter returned for it

eqVars == <<eq_ls, eq_rs, eq_done, eq_red, eq_core>>
cfgVars == <<find_stores, arg_order, m_coalesce_chars, m_sa>>
reVars == <<m_op_cache, re_r, re_b, re_ops, re_call>>
exVars == <<ex_a, ex_b, ex_c, ex_call>>
appVars == <<app_f, app_args, app_call>>
vars == <<eqVars, cfgVars, reVars, exVars, appVars>>

(***************************************************************************)
(* Bounds of the model.                                                    *)
(***************************************************************************)
MaxOps == 4          \* operands of an equation, both sides together
MaxLitLen == 2       \* length of a string literal operand
MaxVarLen == 2       \* length of the value of a symbolic sequence
MaxInt == 11         \* magnitude of the value of a symbolic integer
MaxReOps == 2        \* operators applied on top of a regex operand
MaxLoop == 2         \* largest bound of a loop
MaxCond == 3         \* number of if-then-else conditions
MaxIteOps == 3       \* if-then-elses put on top of the operands of combine_ites
MaxCalls == 3        \* calls made one after the other on the same cache
MaxBase == 3         \* length of the literal a subsequence is extracted from
MaxSmall == 4        \* largest of the small numerals of an extraction
MaxWord == 2         \* length of the words matched against a regex
m_max_cache_size == 3  \* entries after which the cache is reset

\* character codes of the model's alphabet: '-' and '1'
Alphabet == {45, 49}

Last(s) == s[Len(s)]
Front(s) == SubSeq(s, 1, Len(s) - 1)
Min(a, b) == IF a < b THEN a ELSE b

RECURSIVE StringsUpTo(_)
StringsUpTo(n) ==
    IF n = 0 THEN {<<>>}
    ELSE LET S == StringsUpTo(n - 1)
         IN S \cup {Append(s, c) : s \in {t \in S : Len(t) = n - 1}, c \in Alphabet}

(***************************************************************************)
(* Expression model: recognisers and constructors of the term manager.     *)
(***************************************************************************)
is_unit(e) == e[1] = "unit"
is_string(e) == e[1] = "str"
is_itos(e) == e[1] = "itos"
is_empty(e) == e[1] = "empty" \/ (e[1] = "str" /\ e[2] = <<>>)
is_concat(e) == e[1] = "seq.++"

mk_unit(ch) == <<"unit", ch>>
mk_string(s) == <<"str", s>>
mk_char(s, i) == <<"c", s[i + 1]>>
mk_empty == <<"empty">>
mk_numeral(n) == <<"num", n>>

\* zstring::extract(offset, len): the sub-string, clipped at the end
extract(s, lo, n) ==
    IF lo >= Len(s) THEN <<>>
    ELSE SubSeq(s, lo + 1, Min(Len(s), lo + n))

\* str().mk_concat(a, b): the binary concatenation term
mk_concat2(a, b) == <<"seq.++", a, b>>

\* str().mk_concat(es, sort): right-associated
RECURSIVE mk_concat(_)
mk_concat(es) ==
    IF Len(es) = 0 THEN mk_empty
    ELSE IF Len(es) = 1 THEN es[1]
    ELSE mk_concat2(es[1], mk_concat(Tail(es)))

\* str().get_concat(e, es): the operands of a concatenation, flattened,
\* without the empty ones
RECURSIVE get_concat(_)
get_concat(e) ==
    IF is_concat(e) THEN get_concat(e[2]) \o get_concat(e[3])
    ELSE IF is_empty(e) THEN <<>> ELSE <<e>>

\* m().are_distinct: two different character constants, or two units of
\* different character constants
are_distinct(a, b) ==
    IF a[1] = "unit" /\ b[1] = "unit"
    THEN a[2][1] = "c" /\ b[2][1] = "c" /\ a[2][2] # b[2][2]
    ELSE a[1] = "c" /\ b[1] = "c" /\ a[2] # b[2]

\* m().are_equal: identity of the terms
are_equal(a, b) == a = b

(***************************************************************************)
(* Word-equation solver.  Every step takes the two operand vectors and the *)
(* accumulated equalities and returns [ok, ls, rs, eqs]; ok = FALSE is the *)
(* C++ "return false" (the equation is unsatisfiable).                     *)
(***************************************************************************)
Res(ok, ls, rs, eqs) == [ok |-> ok, ls |-> ls, rs |-> rs, eqs |-> eqs]

remove_empty_and_concats(es) ==
    LET nonempty(e) == ~is_empty(e)
        kept == SelectSeq(es, nonempty)
        has_concat == \E i \in 1..Len(es) : is_concat(es[i])
        RECURSIVE flat(_)
        flat(fs) == IF fs = <<>> THEN <<>>
                    ELSE get_concat(Head(fs)) \o flat(Tail(fs))
    IN IF has_concat THEN flat(kept) ELSE kept

remove_leading(n, es) == SubSeq(es, n + 1, Len(es))

\* the aligned characters of two literals differ, compared from the back
DiffersBack(s1, s2) ==
    \E i \in 0..(Min(Len(s1), Len(s2)) - 1) :
        s1[Len(s1) - i] # s2[Len(s2) - i]

\* the aligned characters of two literals differ, compared from the front
DiffersFront(s1, s2) ==
    \E i \in 1..Min(Len(s1), Len(s2)) : s1[i] # s2[i]

RECURSIVE reduce_back(_, _, _)
reduce_back(ls0, rs0, eqs) ==
    IF ls0 = <<>> \/ rs0 = <<>> THEN Res(TRUE, ls0, rs0, eqs)
    ELSE
    LET swap == is_unit(Last(rs0)) /\ is_string(Last(ls0))
        ls == IF swap THEN rs0 ELSE ls0
        rs == IF swap THEN ls0 ELSE rs0
        l == Last(ls)
        r == Last(rs)
    IN  IF l = r THEN reduce_back(Front(ls), Front(rs), eqs)
        ELSE IF is_unit(l) /\ is_unit(r) THEN
            IF are_distinct(l[2], r[2]) THEN Res(FALSE, ls, rs, eqs)
            ELSE reduce_back(Front(ls), Front(rs), Append(eqs, <<l[2], r[2]>>))
        ELSE IF is_unit(l) /\ is_string(r) THEN
            LET s == r[2]
                eqs1 == Append(eqs, <<mk_char(s, Len(s) - 1), l[2]>>)
            IN IF Len(s) = 1
               THEN reduce_back(Front(ls), Front(rs), eqs1)
               ELSE reduce_back(Front(ls),
                        [rs EXCEPT ![Len(rs)] = mk_string(extract(s, 0, Len(s) - 1))],
                        eqs1)
        ELSE IF is_string(l) /\ is_string(r) THEN
            LET s1 == l[2]
                s2 == r[2]
                min_l == Min(Len(s1), Len(s2))
                ls1 == IF min_l < Len(s1)
                       THEN Append(Front(ls), mk_string(extract(s1, 0, Len(s1) - min_l)))
                       ELSE Front(ls)
                rs1 == IF min_l < Len(s2)
                       THEN Append(Front(rs), mk_string(extract(s2, 0, Len(s2) - min_l)))
                       ELSE Front(rs)
            IN IF DiffersBack(s1, s2) THEN Res(FALSE, ls, rs, eqs)
               ELSE reduce_back(ls1, rs1, eqs)
        ELSE Res(TRUE, ls, rs, eqs)

\* the loop of reduce_front; head1 and head2 count the consumed operands
RECURSIVE reduce_front_loop(_, _, _, _, _)
reduce_front_loop(ls0, rs0, eqs, h1, h2) ==
    IF h1 = Len(ls0) \/ h2 = Len(rs0)
    THEN Res(TRUE, remove_leading(h1, ls0), remove_leading(h2, rs0), eqs)
    ELSE
    LET swap == is_unit(rs0[h2 + 1]) /\ is_string(ls0[h1 + 1])
        ls == IF swap THEN rs0 ELSE ls0
        rs == IF swap THEN ls0 ELSE rs0
        head1 == IF swap THEN h2 ELSE h1
        head2 == IF swap THEN h1 ELSE h2
        l == ls[head1 + 1]
        r == rs[head2 + 1]
    IN  IF l = r THEN reduce_front_loop(ls, rs, eqs, head1 + 1, head2 + 1)
        ELSE IF is_unit(l) /\ is_unit(r) THEN
            IF are_distinct(l[2], r[2]) THEN Res(FALSE, ls, rs, eqs)
            ELSE reduce_front_loop(ls, rs, Append(eqs, <<l[2], r[2]>>),
                                   head1 + 1, head2 + 1)
        ELSE IF is_unit(l) /\ is_string(r) THEN
            LET s == r[2]
                eqs1 == Append(eqs, <<mk_char(s, 0), l[2]>>)
            IN IF Len(s) = 1
               THEN reduce_front_loop(ls, rs, eqs1, head1 + 1, head2 + 1)
               ELSE reduce_front_loop(ls,
                        [rs EXCEPT ![head2 + 1] = mk_string(extract(s, 1, Len(s) - 1))],
                        eqs1, head1 + 1, head2)
        ELSE IF is_string(l) /\ is_string(r) THEN
            LET s1 == l[2]
                s2 == r[2]
                min_l == Min(Len(s1), Len(s2))
                ls1 == IF min_l = Len(s1) THEN ls
                       ELSE [ls EXCEPT ![head1 + 1] =
                                mk_string(extract(s1, min_l, Len(s1) - min_l))]
                rs1 == IF min_l = Len(s2) THEN rs
                       ELSE [rs EXCEPT ![head2 + 1] =
                                mk_string(extract(s2, min_l, Len(s2) - min_l))]
            IN IF DiffersFront(s1, s2) THEN Res(FALSE, ls, rs, eqs)
               ELSE reduce_front_loop(ls1, rs1, eqs,
                        IF min_l = Len(s1) THEN head1 + 1 ELSE head1,
                        IF min_l = Len(s2) THEN head2 + 1 ELSE head2)
        ELSE Res(TRUE, remove_leading(head1, ls), remove_leading(head2, rs), eqs)

reduce_front(ls, rs, eqs) == reduce_front_loop(ls, rs, eqs, 0, 0)

concat_non_empty(es) ==
    LET keep(e) == is_unit(e) \/ is_string(e)
    IN mk_concat(SelectSeq(es, keep))

\* set_empty(sz, es, all, eqs): [ok, eqs]
RECURSIVE set_empty(_, _, _)
set_empty(es, all, eqs) ==
    IF es = <<>> THEN [ok |-> TRUE, eqs |-> eqs]
    ELSE LET e == Head(es)
         IN IF is_unit(e)
            THEN IF all THEN [ok |-> FALSE, eqs |-> eqs]
                 ELSE set_empty(Tail(es), all, eqs)
            ELSE IF is_empty(e) THEN set_empty(Tail(es), all, eqs)
            ELSE IF is_string(e)
            THEN IF all THEN [ok |-> FALSE, eqs |-> eqs]
                 ELSE set_empty(Tail(es), all, eqs)
            ELSE set_empty(Tail(es), all, Append(eqs, <<mk_empty, e>>))

\* min_length(es, len): [bounded, len]
RECURSIVE min_length(_)
min_length(es) ==
    IF es = <<>> THEN [bounded |-> TRUE, len |-> 0]
    ELSE LET e == Head(es)
             rest == min_length(Tail(es))
         IN IF is_unit(e) THEN [rest EXCEPT !.len = @ + 1]
            ELSE IF is_empty(e) THEN rest
            ELSE IF is_string(e) THEN [rest EXCEPT !.len = @ + Len(e[2])]
            ELSE [rest EXCEPT !.bounded = FALSE]

\* is_string(n, es, s): the operands are literals and units of character
\* constants; s is their concatenation
RECURSIVE is_string_n(_)
is_string_n(es) ==
    IF es = <<>> THEN [ok |-> TRUE, s |-> <<>>]
    ELSE LET e == Head(es)
             rest == is_string_n(Tail(es))
         IN IF is_string(e) THEN [rest EXCEPT !.s = e[2] \o @]
            ELSE IF is_unit(e) /\ e[2][1] = "c" THEN [rest EXCEPT !.s = <<e[2][2]>> \o @]
            ELSE [ok |-> FALSE, s |-> <<>>]

(***************************************************************************)
(* The rational number parser and rational::to_string, on integers.  It    *)
(* takes a leading '-' as the sign and accumulates the decimal digits,     *)
(* skipping every other character.                                         *)
(***************************************************************************)
IsDigit(c) == 48 <= c /\ c <= 57

RECURSIVE DigitsValue(_, _)
DigitsValue(s, acc) ==
    IF s = <<>> THEN acc
    ELSE IF IsDigit(Head(s)) THEN DigitsValue(Tail(s), 10 * acc + (Head(s) - 48))
    ELSE DigitsValue(Tail(s), acc)

rational_of_string(s) ==
    IF s # <<>> /\ Head(s) = 45 THEN 0 - DigitsValue(s, 0) ELSE DigitsValue(s, 0)

RECURSIVE NatToString(_)
NatToString(n) ==
    IF n < 10 THEN <<48 + n>> ELSE Append(NatToString(n \div 10), 48 + (n % 10))

rational_to_string(n) ==
    IF n < 0 THEN <<45>> \o NatToString(0 - n) ELSE NatToString(n)

\* zstring::encode: printable characters are kept, the others are escaped
\* as \x followed by two hexadecimal digits
HexDigit(d) == IF d < 10 THEN 48 + d ELSE 97 + (d - 10)

RECURSIVE encode(_)
encode(s) ==
    IF s = <<>> THEN <<>>
    ELSE LET c == Head(s)
         IN (IF 32 <= c /\ c < 127 THEN <<c>>
             ELSE <<92, 120, HexDigit((c \div 16) % 16), HexDigit(c % 16)>>)
            \o encode(Tail(s))

reduce_itos(ls, rs, eqs) ==
    LET str == is_string_n(rs)
        s1 == encode(str.s)
        r == rational_of_string(s1)
    IN IF Len(ls) = 1 /\ is_itos(ls[1]) /\ str.ok /\ s1 = rational_to_string(r)
       THEN Res(TRUE, <<>>, <<>>, Append(eqs, <<ls[1][2], mk_numeral(r)>>))
       ELSE Res(TRUE, ls, rs, eqs)

\* reduce_by_length with the first length test off by one
reduce_by_length_offbyone(ls, rs, eqs) ==
    LET m1 == min_length(ls)
        m2 == min_length(rs)
    IN  IF ls = <<>> /\ rs = <<>> THEN Res(TRUE, ls, rs, eqs)
        ELSE IF m1.bounded /\ m1.len <= m2.len THEN Res(FALSE, ls, rs, eqs)
        ELSE IF m2.bounded /\ m2.len < m1.len THEN Res(FALSE, ls, rs, eqs)
        ELSE Res(TRUE, ls, rs, eqs)

reduce_by_length(ls, rs, eqs) ==
    IF ls = <<>> /\ rs = <<>> THEN Res(TRUE, ls, rs, eqs)
    ELSE
    LET m1 == min_length(ls)
        m2 == min_length(rs)
        len1 == m1.len
        len2 == m2.len
    IN  IF m1.bounded /\ len1 < len2 THEN Res(FALSE, ls, rs, eqs)
        ELSE IF m2.bounded /\ len2 < len1 THEN Res(FALSE, ls, rs, eqs)
        ELSE IF m1.bounded /\ len1 = len2 /\ len1 > 0 THEN
            LET e == set_empty(rs, FALSE, eqs)
            IN IF ~e.ok THEN Res(FALSE, ls, rs, e.eqs)
               ELSE Res(TRUE, <<>>, <<>>,
                        Append(e.eqs, <<concat_non_empty(ls), concat_non_empty(rs)>>))
        ELSE IF m2.bounded /\ len1 = len2 /\ len1 > 0 THEN
            LET e == set_empty(ls, FALSE, eqs)
            IN IF ~e.ok THEN Res(FALSE, ls, rs, e.eqs)
               ELSE Res(TRUE, <<>>, <<>>,
                        Append(e.eqs, <<concat_non_empty(ls), concat_non_empty(rs)>>))
        ELSE Res(TRUE, ls, rs, eqs)

\* non_overlap(zstring, zstring)
RECURSIVE non_overlap_str(_, _)
non_overlap_str(s1, s2) ==
    LET sz1 == Len(s1)
        sz2 == Len(s2)
        can_overlap(start1, end1, start2) ==
            \A i \in start1..(end1 - 1) : s1[i + 1] = s2[start2 + i + 1]
    IN IF sz1 > sz2 THEN non_overlap_str(s2, s1)
       ELSE /\ \A i \in 1..(sz1 - 1) : ~can_overlap(i, sz1, 0)
            /\ \A j \in 0..(sz2 - sz1 - 1) : ~can_overlap(0, sz1, j)
            /\ \A j \in (sz2 - sz1)..(sz2 - 1) : ~can_overlap(0, sz2 - j, j)

\* non_overlap(expr_ref_vector, expr_ref_vector)
RECURSIVE non_overlap(_, _)
non_overlap(p1, p2) ==
    LET sz1 == Len(p1)
        sz2 == Len(p2)
        \* the first position that is not known to be equal decides
        RECURSIVE scan(_, _, _)
        scan(i, end1, start2) ==
            IF i >= end1 THEN TRUE
            ELSE IF are_distinct(p1[i + 1], p2[start2 + i + 1]) THEN FALSE
            ELSE IF ~are_equal(p1[i + 1], p2[start2 + i + 1]) THEN TRUE
            ELSE scan(i + 1, end1, start2)
        can_overlap(start1, end1, start2) == scan(start1, end1, start2)
    IN IF sz1 > sz2 THEN non_overlap(p2, p1)
       ELSE IF sz1 = 0 \/ sz2 = 0 THEN FALSE
       ELSE IF sz1 = 1 /\ sz2 = 1 /\ is_string(p1[1]) /\ is_string(p2[1])
       THEN non_overlap_str(p1[1][2], p2[1][2])
       ELSE IF \E i \in 1..sz1 : ~is_unit(p1[i]) THEN FALSE
       ELSE IF \E i \in 1..sz2 : ~is_unit(p2[i]) THEN FALSE
       ELSE /\ \A i \in 1..(sz1 - 1) : ~can_overlap(i, sz1, 0)
            /\ \A j \in 0..(sz2 - sz1 - 1) : ~can_overlap(0, sz1, j)
            /\ \A j \in (sz2 - sz1)..(sz2 - 1) : ~can_overlap(0, sz2 - j, j)

\* the maximal runs of units of ls, in order
RECURSIVE unit_runs(_, _)
unit_runs(es, pattern) ==
    IF es = <<>> THEN (IF pattern = <<>> THEN <<>> ELSE <<pattern>>)
    ELSE IF is_unit(Head(es)) THEN unit_runs(Tail(es), Append(pattern, Head(es)))
    ELSE IF pattern # <<>> THEN <<pattern>> \o unit_runs(Tail(es), <<>>)
    ELSE unit_runs(Tail(es), <<>>)

reduce_non_overlap(ls, rs, eqs) ==
    IF \E i \in 1..Len(rs) : ~is_unit(rs[i]) THEN Res(TRUE, ls, rs, eqs)
    ELSE LET runs == unit_runs(ls, <<>>)
         IN IF \E k \in 1..Len(runs) : non_overlap(runs[k], rs)
            THEN Res(FALSE, ls, rs, eqs)
            ELSE Res(TRUE, ls, rs, eqs)

\* a first loop that lets every operand take the first free position
subseq_match_any(ls, rs, rpos) ==
    IF Len(ls) + Cardinality(rpos) > Len(rs) THEN [ok |-> FALSE, rpos |-> rpos]
    ELSE [ok |-> TRUE, rpos |-> rpos \cup (1..Len(ls))]

\* the first loop of reduce_subsequence: every x of ls takes the first free
\* position of rs that holds x itself or, for a unit x, a unit
RECURSIVE subseq_match(_, _, _)
subseq_match(ls, rs, rpos) ==
    IF ls = <<>> THEN [ok |-> TRUE, rpos |-> rpos]
    ELSE LET x == Head(ls)
             cand == {j \in 1..Len(rs) :
                        j \notin rpos /\ (x = rs[j] \/ (is_unit(x) /\ is_unit(rs[j])))}
         IN IF cand = {} THEN [ok |-> FALSE, rpos |-> rpos]
            ELSE LET j == CHOOSE k \in cand : \A k2 \in cand : k <= k2
                 IN subseq_match(Tail(ls), rs, rpos \cup {j})

reduce_subsequence(ls0, rs0, eqs) ==
    LET swap == Len(ls0) > Len(rs0)
        ls == IF swap THEN rs0 ELSE ls0
        rs == IF swap THEN ls0 ELSE rs0
        mt == subseq_match(ls, rs, {})
        unmatched == SelectSeq([i \in 1..Len(rs) |-> <<i, rs[i]>>],
                               LAMBDA p : p[1] \notin mt.rpos)
        matched == SelectSeq([i \in 1..Len(rs) |-> <<i, rs[i]>>],
                             LAMBDA p : p[1] \in mt.rpos)
        proj(ps) == [i \in 1..Len(ps) |-> ps[i][2]]
        e == set_empty(proj(unmatched), TRUE, eqs)
    IN  IF Len(ls) = Len(rs) THEN Res(TRUE, ls, rs, eqs)
        ELSE IF ls = <<>> /\ Len(rs) = 1 THEN Res(TRUE, ls, rs, eqs)
        ELSE IF ~mt.ok THEN Res(TRUE, ls, rs, eqs)
        ELSE IF ~e.ok THEN Res(FALSE, ls, rs, e.eqs)
        ELSE IF Len(matched) = Len(rs) THEN Res(TRUE, ls, rs, e.eqs)
        ELSE IF ls # <<>>
        THEN Res(TRUE, <<>>, <<>>,
                 Append(e.eqs, <<mk_concat(ls), mk_concat(proj(matched))>>))
        ELSE Res(TRUE, ls, proj(matched), e.eqs)

\* the next step of the reduction runs only if the steps so far succeeded
\* (the && chain of reduce_eq); s is evaluated once
AndThen(s0, step(_, _, _)) ==
    CHOOSE res \in {IF s.ok THEN step(s.ls, s.rs, s.eqs) ELSE s : s \in {s0}} : TRUE

\* a step called with the two sides exchanged: step(rs, ls, eqs)
Exchanged(s0) ==
    CHOOSE res \in {Res(s.ok, s.rs, s.ls, s.eqs) : s \in {s0}} : TRUE

\* reduce_eq(ls, rs, eqs, change): [ok, ls, rs, eqs, change].  The steps run
\* in this order and the first one that fails ends the reduction.
reduce_eq_vec(ls0, rs0, eqs0) ==
    LET start == Res(TRUE, remove_empty_and_concats(ls0),
                     remove_empty_and_concats(rs0), eqs0)
        itos_rl(ls, rs, eqs) == Exchanged(reduce_itos(rs, ls, eqs))
        non_overlap_rl(ls, rs, eqs) == Exchanged(reduce_non_overlap(rs, ls, eqs))
        final ==
            AndThen(AndThen(AndThen(AndThen(AndThen(AndThen(AndThen(AndThen(start,
                reduce_back), reduce_front), reduce_itos), itos_rl),
                reduce_by_length), reduce_subsequence), reduce_non_overlap),
                non_overlap_rl)
    IN CHOOSE res \in
        {[ok |-> s.ok, ls |-> s.ls, rs |-> s.rs, eqs |-> s.eqs,
          change |-> s.ok /\ (ls0 # s.ls \/ rs0 # s.rs \/ Len(s.eqs) # Len(eqs0))]
            : s \in {final}} : TRUE

add_seqs(ls, rs, eqs) ==
    IF ls # <<>> \/ rs # <<>>
    THEN Append(eqs, <<mk_concat(ls), mk_concat(rs)>>)
    ELSE eqs

\* reduce_eq(l, r, new_eqs, changed): [ok, eqs, changed]
reduce_eq(l, r) ==
    CHOOSE res \in
        {IF red.ok
         THEN [ok |-> TRUE,
               eqs |-> IF ~red.change THEN Append(red.eqs, <<l, r>>)
                       ELSE add_seqs(red.ls, red.rs, red.eqs),
               changed |-> red.change]
         ELSE [ok |-> FALSE, eqs |-> red.eqs, changed |-> FALSE]
            : red \in {reduce_eq_vec(get_concat(l), get_concat(r), <<>>)}} : TRUE

\* mk_eq_core that reports a refuted equation as "no match"
mk_eq_core_downgrade(l, r) ==
    CHOOSE res \in
        {IF ~red.ok \/ ~red.changed THEN [st |-> "BR_FAILED", result |-> <<"none">>]
         ELSE [st |-> "BR_REWRITE3", result |-> <<"and", red.eqs>>]
            : red \in {reduce_eq(l, r)}} : TRUE

\* mk_eq_core(l, r, result) on sequences: [st, result]
mk_eq_core(l, r) ==
    CHOOSE res \in
        {IF ~red.ok THEN [st |-> "BR_DONE", result |-> <<"false">>]
         ELSE IF ~red.changed THEN [st |-> "BR_FAILED", result |-> <<"none">>]
         ELSE [st |-> "BR_REWRITE3", result |-> <<"and", red.eqs>>]
            : red \in {reduce_eq(l, r)}} : TRUE

(***************************************************************************)
(* Meaning of sequence terms and of the emitted equalities under an        *)
(* assignment env = [cv, sv, iv] of the symbolic characters, sequences and *)
(* integers.                                                               *)
(***************************************************************************)
\* the value of itos(n): the decimal digits of n, empty for negative n
ItosValue(n) == IF n < 0 THEN <<>> ELSE NatToString(n)

EvalChar(ch, env) == IF ch[1] = "c" THEN ch[2] ELSE env.cv[ch[2]]

RECURSIVE EvalSeq(_, _)
EvalSeq(e, env) ==
    CASE e[1] = "unit" -> <<EvalChar(e[2], env)>>
      [] e[1] = "str" -> e[2]
      [] e[1] = "empty" -> <<>>
      [] e[1] = "var" -> env.sv[e[2]]
      [] e[1] = "itos" -> ItosValue(env.iv)
      [] e[1] = "seq.++" -> EvalSeq(e[2], env) \o EvalSeq(e[3], env)

\* the value of the concatenation of an operand list
RECURSIVE EvalList(_, _)
EvalList(es, env) ==
    IF es = <<>> THEN <<>> ELSE EvalSeq(Head(es), env) \o EvalList(Tail(es), env)

\* an emitted pair holds: both sides are characters, integers or sequences
EqHolds(p, env) ==
    LET a == p[1]
        b == p[2]
    IN IF a[1] \in {"c", "v"} THEN EvalChar(a, env) = EvalChar(b, env)
       ELSE IF a[1] = "ivar" THEN env.iv = b[2]
       ELSE EvalSeq(a, env) = EvalSeq(b, env)

AllHold(eqs, env) == \A i \in 1..Len(eqs) : EqHolds(eqs[i], env)

(***************************************************************************)
(* Specification SpecEq: an equation between two operand lists is built    *)
(* operand by operand and then handed to mk_eq_core.                       *)
(***************************************************************************)
CharVar == <<"v", 1>>
IntVar == <<"ivar", 1>>
SeqVars == {<<"var", 1>>, <<"var", 2>>}

Operands ==
    {mk_unit(<<"c", c>>) : c \in Alphabet}
    \cup {mk_unit(CharVar)}
    \cup {mk_string(s) : s \in StringsUpTo(MaxLitLen) \ {<<>>}}
    \cup SeqVars
    \cup {<<"itos", IntVar>>, mk_empty}

\* the values a symbolic integer ranges over
IntDom == (0 - MaxInt)..MaxInt \cup {111, 1111}

\* the assignments that differ on the symbols occurring in es
Envs(es) ==
    LET occurs(x) == \E i \in 1..Len(es) : es[i] = x
        anyc == CHOOSE c \in Alphabet : TRUE
        cvs == IF occurs(mk_unit(CharVar)) THEN [{1} -> Alphabet] ELSE {[k \in {1} |-> anyc]}
        dom(k) == IF occurs(<<"var", k>>) THEN StringsUpTo(MaxVarLen) ELSE {<<>>}
        svs == {[k \in {1, 2} |-> IF k = 1 THEN a ELSE b] : a \in dom(1), b \in dom(2)}
        ivs == IF occurs(<<"itos", IntVar>>) THEN IntDom ELSE {0}
    IN {[cv |-> c, sv |-> s, iv |-> n] : c \in cvs, s \in svs, n \in ivs}

\* some assignment makes both sides denote the same sequence
Sat(ls, rs) ==
    \E env \in Envs(ls \o rs) :
        EvalList(ls, env) = EvalList(rs, env)

NoRed == [ok |-> TRUE, eqs |-> <<>>, changed |-> FALSE]
NoCore == [st |-> "none", result |-> <<"none">>]
Call(op, k, cond, ele, st, result, failed) ==
    [op |-> op, k |-> k, cond |-> cond, ele |-> ele, st |-> st, result |-> result,
     failed |-> failed]
NoCall == Call("none", "none", <<"null">>, <<"null">>, "none", <<"null">>, FALSE)

\* no equation is being solved
IdleEq ==
    /\ eq_ls = <<>>
    /\ eq_rs = <<>>
    /\ eq_done = FALSE
    /\ eq_red = NoRed
    /\ eq_core = NoCore

NoExtract == [st |-> "none", rule |-> "none", result |-> <<"null">>]

\* no extraction is being rewritten
IdleEx ==
    /\ ex_a = <<"empty">>
    /\ ex_b = <<"int", 0, 0>>
    /\ ex_c = <<"int", 0, 0>>
    /\ ex_call = NoExtract

NoApp == [st |-> "none", result |-> <<"null">>]

\* no operator application is being rewritten
IdleApp ==
    /\ app_f = "none"
    /\ app_args = <<>>
    /\ app_call = NoApp

\* the regex part of the rewriter is not in use
IdleRe ==
    /\ m_op_cache = {}
    /\ find_stores = TRUE
    /\ arg_order = "ltr"
    /\ m_coalesce_chars = TRUE
    /\ m_sa = FALSE
    /\ re_r = <<"re.empty">>
    /\ re_b = <<"re.empty">>
    /\ re_ops = 0
    /\ re_call = NoCall

InitEq ==
    /\ IdleApp
    /\ eq_ls = <<>>
    /\ eq_rs = <<>>
    /\ eq_done = FALSE
    /\ eq_red = NoRed
    /\ eq_core = NoCore
    /\ IdleRe
    /\ IdleEx

AddLeft ==
    /\ ~eq_done
    /\ Len(eq_ls) + Len(eq_rs) < MaxOps
    /\ eq_rs = <<>>
    /\ \E x \in Operands : eq_ls' = Append(eq_ls, x)
    /\ UNCHANGED <<eq_rs, eq_done, eq_red, eq_core, cfgVars, appVars, reVars, exVars>>

AddRight ==
    /\ ~eq_done
    /\ Len(eq_ls) + Len(eq_rs) < MaxOps
    /\ \E x \in Operands : eq_rs' = Append(eq_rs, x)
    /\ UNCHANGED <<eq_ls, eq_done, eq_red, eq_core, cfgVars, appVars, reVars, exVars>>

\* the rewriter meets the equality mk_concat(eq_ls) = mk_concat(eq_rs)
MkEqCore ==
    /\ ~eq_done
    /\ eq_done' = TRUE
    /\ eq_red' = reduce_eq(mk_concat(eq_ls), mk_concat(eq_rs))
    /\ eq_core' = mk_eq_core(mk_concat(eq_ls), mk_concat(eq_rs))
    /\ UNCHANGED <<eq_ls, eq_rs, cfgVars, appVars, reVars, exVars>>

NextEq == AddLeft \/ AddRight \/ MkEqCore

SpecEq == InitEq /\ [][NextEq]_vars

\* C1: whenever reduce_eq reports the equation unsatisfiable (returns
\* false), no assignment makes the two sides denote the same sequence.
C1_NeverRefutesSatisfiable ==
    (eq_done /\ ~eq_red.ok) => ~Sat(eq_ls, eq_rs)

C1_Witness ==
    /\ eq_done /\ eq_red.ok /\ eq_red.changed
    /\ Len(eq_ls) >= 2 /\ Len(eq_rs) >= 2
    /\ \E i \in 1..Len(eq_ls) : eq_ls[i] \in SeqVars
    /\ Sat(eq_ls, eq_rs)

\* C2: when reduce_eq succeeds, an assignment satisfies the original
\* equation if and only if it satisfies every emitted equality.
C2_EmittedEquivalent ==
    (eq_done /\ eq_red.ok) =>
        \A env \in Envs(eq_ls \o eq_rs) :
            (EvalList(eq_ls, env) = EvalList(eq_rs, env))
                <=> AllHold(eq_red.eqs, env)

\* the first operands of the two sides are provably distinct units or
\* literals that differ at an aligned character
FrontClash(ls, rs) ==
    /\ ls # <<>> /\ rs # <<>>
    /\ \/ is_unit(ls[1]) /\ is_unit(rs[1]) /\ are_distinct(ls[1][2], rs[1][2])
       \/ is_string(ls[1]) /\ is_string(rs[1]) /\ DiffersFront(ls[1][2], rs[1][2])

\* the same for the last operands, aligned at the end
BackClash(ls, rs) ==
    /\ ls # <<>> /\ rs # <<>>
    /\ \/ is_unit(Last(ls)) /\ is_unit(Last(rs)) /\ are_distinct(Last(ls)[2], Last(rs)[2])
       \/ is_string(Last(ls)) /\ is_string(Last(rs)) /\ DiffersBack(Last(ls)[2], Last(rs)[2])

\* C3: when the stripping meets two provably distinct units or two literals
\* that differ at an aligned character, reduce_eq fails and mk_eq_core
\* returns the literal false with status done.
C3_RefutedIsHardFalse ==
    LET ls == get_concat(mk_concat(eq_ls))
        rs == get_concat(mk_concat(eq_rs))
    IN (eq_done /\ (FrontClash(ls, rs) \/ BackClash(ls, rs))) =>
            /\ ~eq_red.ok
            /\ eq_core = [st |-> "BR_DONE", result |-> <<"false">>]

\* "-1" ++ x = "1-" ++ y has been refuted
C3_Witness ==
    /\ eq_done
    /\ Len(eq_ls) = 2 /\ Len(eq_rs) = 2
    /\ is_string(eq_ls[1]) /\ is_string(eq_rs[1])
    /\ Len(eq_ls[1][2]) = 2 /\ Len(eq_rs[1][2]) = 2
    /\ eq_ls[2] \in SeqVars /\ eq_rs[2] \in SeqVars /\ eq_ls[2] # eq_rs[2]
    /\ FrontClash(eq_ls, eq_rs)
    /\ eq_core.st = "BR_DONE"

(***************************************************************************)
(* Regular expressions.                                                    *)
(*   regex terms : <<"re.empty">>, <<"re.all">> (full sequence),           *)
(*                 <<"re.allchar">>, <<"str.to_re", s>>, <<"re.++", a, b>>,*)
(*                 <<"re.union", a, b>>, <<"re.inter", a, b>>,             *)
(*                 <<"re.diff", a, b>>, <<"re.comp", a>>, <<"re.*", a>>,   *)
(*                 <<"re.+", a>>, <<"re.opt", a>>, <<"re.loop", a, lo>>,   *)
(*                 <<"re.loop", a, lo, hi>>, <<"re.range", s1, s2>>,       *)
(*                 <<"re.reverse", a>>, <<"re.of_pred", p>>,               *)
(*                 <<"re.derivative", ele, a>>, <<"ite", cond, a, b>>      *)
(*   booleans    : <<"true">>, <<"false">>, <<"and", a, b>>,               *)
(*                 <<"or", a, b>>, <<"not", a>>, <<"=", x, y>>,            *)
(*                 <<"char.<=", x, y>>, <<"ite", c, a, b>>,                *)
(*                 <<"str.in_re", s, r>>, <<"select", p, x>>, and the      *)
(*                 atoms <<"b", id>>, whose identifier is id               *)
(***************************************************************************)
re_mk_empty == <<"re.empty">>
re_mk_full_seq == <<"re.all">>
re_mk_full_char == <<"re.allchar">>
re_mk_to_re(s) == <<"str.to_re", s>>
re_mk_concat(a, b) == <<"re.++", a, b>>
re_mk_union(a, b) == <<"re.union", a, b>>
re_mk_inter(a, b) == <<"re.inter", a, b>>
re_mk_diff(a, b) == <<"re.diff", a, b>>
re_mk_complement(a) == <<"re.comp", a>>
re_mk_star(a) == <<"re.*", a>>
re_mk_plus(a) == <<"re.+", a>>
re_mk_opt(a) == <<"re.opt", a>>
re_mk_loop1(a, lo) == <<"re.loop", a, lo>>
re_mk_loop2(a, lo, hi) == <<"re.loop", a, lo, hi>>
re_mk_range(s1, s2) == <<"re.range", s1, s2>>
re_mk_reverse(a) == <<"re.reverse", a>>
re_mk_of_pred(p) == <<"re.of_pred", p>>
re_mk_derivative(ele, a) == <<"re.derivative", ele, a>>
re_mk_in_re(s, r) == <<"str.in_re", s, r>>

UnaryOps == {"re.*", "re.+", "re.opt", "re.comp", "re.reverse"}
BinaryOps == {"re.++", "re.union", "re.inter", "re.diff"}

re_is_loop1(r) == r[1] = "re.loop" /\ Len(r) = 3
re_is_loop2(r) == r[1] = "re.loop" /\ Len(r) = 4

mk_true == <<"true">>
mk_false == <<"false">>
\* an if-then-else with its branches exchanged
mk_ite_exchanged(c, a, b) == <<"ite", c, b, a>>
mk_ite(c, a, b) == <<"ite", c, a, b>>
mk_eq(a, b) == <<"=", a, b>>
mk_le(a, b) == <<"char.<=", a, b>>
mk_select(p, x) == <<"select", p, x>>
is_true(e) == e = mk_true
is_false(e) == e = mk_false
is_ite(e) == e[1] = "ite"

\* mk_and, mk_or, mk_not of ast_util
m_mk_and(a, b) == <<"and", a, b>>
mk_and(a, b) == m_mk_and(a, b)
mk_or(a, b) == <<"or", a, b>>
mk_not(a) ==
    IF a[1] = "not" THEN a[2]
    ELSE IF is_true(a) THEN mk_false
    ELSE IF is_false(a) THEN mk_true
    ELSE <<"not", a>>

\* expr::get_id of a condition
get_id(cond) == cond[2]

(***************************************************************************)
(* Meaning of regex and boolean terms under an assignment                  *)
(* env = [cv, sv, iv, bv, pv]; bv gives the truth value of the boolean     *)
(* atoms, pv the characters satisfying a predicate.                        *)
(***************************************************************************)
Reverse(w) == [i \in 1..Len(w) |-> w[Len(w) + 1 - i]]

RECURSIVE Matches(_, _, _)
RECURSIVE EvalBool(_, _)

\* the word w is in the language of r
Matches(r, w, env) ==
    LET n == Len(w)
        pre(i) == SubSeq(w, 1, i)
        suf(i) == SubSeq(w, i + 1, n)
    IN CASE r[1] = "re.empty" -> FALSE
         [] r[1] = "re.all" -> TRUE
         [] r[1] = "re.allchar" -> n = 1
         [] r[1] = "str.to_re" -> w = EvalSeq(r[2], env)
         [] r[1] = "re.++" ->
                \E i \in 0..n : Matches(r[2], pre(i), env) /\ Matches(r[3], suf(i), env)
         [] r[1] = "re.union" -> Matches(r[2], w, env) \/ Matches(r[3], w, env)
         [] r[1] = "re.inter" -> Matches(r[2], w, env) /\ Matches(r[3], w, env)
         [] r[1] = "re.diff" -> Matches(r[2], w, env) /\ ~Matches(r[3], w, env)
         [] r[1] = "re.comp" -> ~Matches(r[2], w, env)
         [] r[1] = "re.*" ->
                \/ n = 0
                \/ \E i \in 1..n : Matches(r[2], pre(i), env) /\ Matches(r, suf(i), env)
         [] r[1] = "re.+" ->
                \E i \in 0..n : Matches(r[2], pre(i), env)
                                /\ Matches(re_mk_star(r[2]), suf(i), env)
         [] r[1] = "re.opt" -> n = 0 \/ Matches(r[2], w, env)
         [] re_is_loop1(r) ->
                IF r[3] = 0 THEN Matches(re_mk_star(r[2]), w, env)
                ELSE \E i \in 0..n : Matches(r[2], pre(i), env)
                                     /\ Matches(re_mk_loop1(r[2], r[3] - 1), suf(i), env)
         [] re_is_loop2(r) ->
                IF r[3] > r[4] THEN FALSE
                ELSE IF r[4] = 0 THEN n = 0
                ELSE IF r[3] = 0
                THEN \/ n = 0
                     \/ \E i \in 0..n : Matches(r[2], pre(i), env)
                            /\ Matches(re_mk_loop2(r[2], 0, r[4] - 1), suf(i), env)
                ELSE \E i \in 0..n : Matches(r[2], pre(i), env)
                            /\ Matches(re_mk_loop2(r[2], r[3] - 1, r[4] - 1), suf(i), env)
         [] r[1] = "re.range" ->
                LET lo == EvalSeq(r[2], env)
                    hi == EvalSeq(r[3], env)
                IN Len(lo) = 1 /\ Len(hi) = 1 /\ n = 1 /\ lo[1] <= w[1] /\ w[1] <= hi[1]
         [] r[1] = "re.reverse" -> Matches(r[2], Reverse(w), env)
         [] r[1] = "re.of_pred" -> n = 1 /\ w[1] \in env.pv[r[2][2]]
         [] r[1] = "re.derivative" -> Matches(r[3], <<EvalChar(r[2], env)>> \o w, env)
         [] r[1] = "ite" ->
                IF EvalBool(r[2], env) THEN Matches(r[3], w, env)
                ELSE Matches(r[4], w, env)

EvalBool(b, env) ==
    CASE b[1] = "true" -> TRUE
      [] b[1] = "false" -> FALSE
      [] b[1] = "and" -> EvalBool(b[2], env) /\ EvalBool(b[3], env)
      [] b[1] = "or" -> EvalBool(b[2], env) \/ EvalBool(b[3], env)
      [] b[1] = "not" -> ~EvalBool(b[2], env)
      [] b[1] = "=" ->
            IF b[2][1] \in {"c", "v"} THEN EvalChar(b[2], env) = EvalChar(b[3], env)
            ELSE EvalSeq(b[2], env) = EvalSeq(b[3], env)
      [] b[1] = "char.<=" -> EvalChar(b[2], env) <= EvalChar(b[3], env)
      [] b[1] = "ite" ->
            IF EvalBool(b[2], env) THEN EvalBool(b[3], env) ELSE EvalBool(b[4], env)
      [] b[1] = "str.in_re" -> Matches(b[3], EvalSeq(b[2], env), env)
      [] b[1] = "select" -> EvalChar(b[3], env) \in env.pv[b[2][2]]
      [] b[1] = "b" -> env.bv[b[2]]

(***************************************************************************)
(* The operation cache.  m_table is a set of entries [k, r]: k is the key  *)
(* <<op, a, b, c>> (an absent argument is null) and r the stored result.   *)
(***************************************************************************)
null == <<"null">>

\* forces the value v once and hands it on
Force(v, F(_)) == CHOOSE res \in {F(x) : x \in {v}} : TRUE

Ret(r, c) == [r |-> r, c |-> c]

op_entry(op, a, b, c) == <<op, a, b, c>>

\* op_cache::find: e.r is returned after the single-argument table lookup;
\* find_stores tells whether that lookup copies the entry it found into e
find(table, op, a, b, c) ==
    LET e == op_entry(op, a, b, c)
    IN IF find_stores /\ (\E x \in table : x.k = e)
       THEN (CHOOSE x \in table : x.k = e).r
       ELSE null

\* op_cache::cleanup
cleanup(table) == IF Cardinality(table) >= m_max_cache_size THEN {} ELSE table

\* an insert that files the entry under the operands in the wrong order
insert_swapped(table, op, a, b, c, r) ==
    LET e == op_entry(op, b, a, c)
    IN {x \in cleanup(table) : x.k # e} \cup {[k |-> e, r |-> r]}

\* op_cache::insert
insert(table, op, a, b, c, r) ==
    LET e == op_entry(op, a, b, c)
    IN {x \in cleanup(table) : x.k # e} \cup {[k |-> e, r |-> r]}

(***************************************************************************)
(* Sequence helpers used by the derivative                                 *)
(***************************************************************************)
\* mk_seq_concat(a, b, result), BR_FAILED leaving the plain concatenation
mk_seq_concat(a, b) ==
    LET isc1 == is_string(a) /\ m_coalesce_chars
        isc2 == is_string(b) /\ m_coalesce_chars
    IN IF isc1 /\ isc2 THEN mk_string(a[2] \o b[2])
       ELSE IF is_concat(a) THEN mk_concat2(a[2], mk_concat2(a[3], b))
       ELSE IF is_empty(a) THEN b
       ELSE IF is_empty(b) THEN a
       ELSE IF isc1 /\ is_concat(b) /\ is_string(b[2])
       THEN mk_concat2(mk_string(a[2] \o b[2][2]), b[3])
       ELSE mk_concat2(a, b)

RECURSIVE get_head_tail(_)
get_head_tail(s) ==
    IF is_unit(s) THEN [ok |-> TRUE, head |-> s[2], tail |-> mk_empty]
    ELSE IF is_string(s) /\ Len(s[2]) > 0
    THEN [ok |-> TRUE, head |-> mk_char(s[2], 0),
          tail |-> mk_string(extract(s[2], 1, Len(s[2])))]
    ELSE IF is_concat(s)
    THEN Force(get_head_tail(s[2]), LAMBDA ht :
            IF ht.ok THEN [ok |-> TRUE, head |-> ht.head,
                           tail |-> mk_seq_concat(ht.tail, s[3])]
            ELSE [ok |-> FALSE, head |-> null, tail |-> null])
    ELSE [ok |-> FALSE, head |-> null, tail |-> null]

re_and(cond, r) ==
    IF is_true(cond) THEN r
    ELSE IF is_false(cond) THEN re_mk_empty
    ELSE mk_ite(cond, r, re_mk_empty)

re_predicate(cond) == re_and(cond, re_mk_to_re(mk_empty))

(***************************************************************************)
(* Nullability.  Every operator takes the cache and returns the result     *)
(* together with the cache it leaves behind.                               *)
(***************************************************************************)
RECURSIVE is_nullable(_, _)
RECURSIVE is_nullable_rec(_, _)

is_nullable_rec(r, c) ==
    LET hit == find(c, "_OP_RE_IS_NULLABLE", r, null, null)
    IN IF hit # null THEN Ret(hit, c)
       ELSE Force(is_nullable(r, c), LAMBDA x :
                Ret(x.r, insert(x.c, "_OP_RE_IS_NULLABLE", r, null, null, x.r)))

\* the two operand calls of one expression, in the order the build
\* evaluates function arguments
nullable_args(r1, r2, c) ==
    IF arg_order = "ltr"
    THEN Force(is_nullable_rec(r1, c), LAMBDA x :
            Force(is_nullable_rec(r2, x.c), LAMBDA y :
                [a |-> x.r, b |-> y.r, c |-> y.c]))
    ELSE Force(is_nullable_rec(r2, c), LAMBDA y :
            Force(is_nullable_rec(r1, y.c), LAMBDA x :
                [a |-> x.r, b |-> y.r, c |-> x.c]))

is_nullable(r, c) ==
    IF r[1] \in {"re.++", "re.inter"}
    THEN Force(nullable_args(r[2], r[3], c), LAMBDA p : Ret(mk_and(p.a, p.b), p.c))
    ELSE IF r[1] = "re.union"
    THEN Force(nullable_args(r[2], r[3], c), LAMBDA p : Ret(mk_or(p.a, p.b), p.c))
    ELSE IF r[1] = "re.diff"
    THEN Force(is_nullable_rec(r[3], c), LAMBDA y :
            Force(is_nullable_rec(r[2], y.c), LAMBDA x :
                Ret(mk_and(x.r, mk_not(y.r)), x.c)))
    ELSE IF \/ r[1] \in {"re.*", "re.opt", "re.all"}
            \/ (r[1] = "re.loop" /\ r[3] = 0)
    THEN Ret(mk_true, c)
    ELSE IF r[1] \in {"re.allchar", "re.empty", "re.of_pred", "re.range"}
    THEN Ret(mk_false, c)
    ELSE IF \/ r[1] \in {"re.+", "re.reverse"}
            \/ (r[1] = "re.loop" /\ r[3] > 0)
    THEN is_nullable_rec(r[2], c)
    ELSE IF r[1] = "re.comp"
    THEN Force(is_nullable_rec(r[2], c), LAMBDA x : Ret(mk_not(x.r), x.c))
    ELSE IF r[1] = "str.to_re"
    THEN Ret(mk_eq(mk_empty, r[2]), c)
    ELSE IF is_ite(r)
    THEN Force(nullable_args(r[3], r[4], c), LAMBDA p :
            Ret(mk_ite(r[2], p.a, p.b), p.c))
    ELSE Ret(re_mk_in_re(mk_empty, r), c)

(***************************************************************************)
(* Symbolic derivative                                                     *)
(***************************************************************************)
DRet(st, result, c) == [st |-> st, result |-> result, c |-> c]

mk_re_derivative(ele, r, c) ==
    LET D(x) == re_mk_derivative(ele, x)
    IN
    IF r[1] = "re.++"
    THEN Force(is_nullable(r[2], c), LAMBDA n :
            LET result == re_mk_concat(D(r[2]), r[3])
            IN IF is_false(n.r) THEN DRet("BR_REWRITE2", result, n.c)
               ELSE IF is_true(n.r)
               THEN DRet("BR_REWRITE3", re_mk_union(result, D(r[3])), n.c)
               ELSE DRet("BR_REWRITE3",
                         mk_ite(n.r, re_mk_union(result, D(r[3])), result), n.c))
    ELSE IF r[1] = "re.*"
    THEN DRet("BR_REWRITE2", re_mk_concat(D(r[2]), r), c)
    ELSE IF r[1] = "re.+"
    THEN DRet("BR_REWRITE1", D(re_mk_star(r[2])), c)
    ELSE IF r[1] = "re.union"
    THEN DRet("BR_REWRITE2", re_mk_union(D(r[2]), D(r[3])), c)
    ELSE IF r[1] = "re.inter"
    THEN DRet("BR_REWRITE2", re_mk_inter(D(r[2]), D(r[3])), c)
    ELSE IF r[1] = "re.diff"
    THEN DRet("BR_REWRITE2", re_mk_diff(D(r[2]), D(r[3])), c)
    ELSE IF is_ite(r)
    THEN DRet("BR_REWRITE2", mk_ite(r[2], D(r[3]), D(r[4])), c)
    ELSE IF r[1] = "re.opt"
    THEN DRet("BR_REWRITE1", D(r[2]), c)
    ELSE IF r[1] = "re.comp"
    THEN DRet("BR_REWRITE2", re_mk_complement(D(r[2])), c)
    ELSE IF re_is_loop1(r)
    THEN LET lo == IF r[3] > 0 THEN r[3] - 1 ELSE r[3]
         IN DRet("BR_REWRITE2", re_mk_concat(D(r[2]), re_mk_loop1(r[2], lo)), c)
    ELSE IF re_is_loop2(r)
    THEN IF r[4] = 0 THEN DRet("BR_DONE", re_mk_empty, c)
         ELSE LET hi == r[4] - 1
                  lo == IF r[3] > 0 THEN r[3] - 1 ELSE r[3]
              IN DRet("BR_REWRITE2",
                      re_mk_concat(D(r[2]), re_mk_loop2(r[2], lo, hi)), c)
    ELSE IF r[1] \in {"re.all", "re.empty"}
    THEN DRet("BR_DONE", r, c)
    ELSE IF r[1] = "str.to_re"
    THEN Force(get_head_tail(r[2]), LAMBDA ht :
            IF ht.ok
            THEN DRet("BR_REWRITE2", re_and(mk_eq(ele, ht.head), re_mk_to_re(ht.tail)), c)
            ELSE IF is_empty(r[2]) THEN DRet("BR_DONE", re_mk_empty, c)
            ELSE DRet("BR_FAILED", null, c))
    ELSE IF r[1] = "re.range"
    THEN IF is_string(r[2]) /\ is_string(r[3])
         THEN IF Len(r[2][2]) = 1 /\ Len(r[3][2]) = 1
              THEN DRet("BR_REWRITE3",
                        re_predicate(m_mk_and(mk_le(mk_char(r[2][2], 0), ele),
                                              mk_le(ele, mk_char(r[3][2], 0)))), c)
              ELSE DRet("BR_DONE", re_mk_empty, c)
         ELSE IF is_unit(r[2]) /\ is_unit(r[3])
         THEN DRet("BR_REWRITE2",
                   re_predicate(m_mk_and(mk_le(r[2][2], ele), mk_le(ele, r[3][2]))), c)
         ELSE DRet("BR_FAILED", null, c)
    ELSE IF r[1] = "re.allchar"
    THEN DRet("BR_DONE", re_mk_to_re(mk_empty), c)
    ELSE IF r[1] = "re.of_pred"
    THEN DRet("BR_REWRITE2", re_predicate(mk_select(r[2], ele)), c)
    ELSE DRet("BR_FAILED", null, c)

\* The rewriting driver: mk_re_derivative is applied again to the derivative
\* terms of a result, until none is left or one of them is stuck.
RECURSIVE unfold(_, _)
unfold(t, c) ==
    LET URet(r, cc, f) == [r |-> r, c |-> cc, failed |-> f]
    IN
    IF t[1] = "re.derivative"
    THEN Force(mk_re_derivative(t[2], t[3], c), LAMBDA d :
            IF d.st = "BR_FAILED" THEN URet(t, d.c, TRUE)
            ELSE unfold(d.result, d.c))
    ELSE IF t[1] \in {"re.++", "re.union", "re.inter", "re.diff"}
    THEN Force(unfold(t[2], c), LAMBDA x :
            Force(unfold(t[3], x.c), LAMBDA y :
                URet(<<t[1], x.r, y.r>>, y.c, x.failed \/ y.failed)))
    ELSE IF t[1] = "re.comp"
    THEN Force(unfold(t[2], c), LAMBDA x : URet(<<t[1], x.r>>, x.c, x.failed))
    ELSE IF is_ite(t)
    THEN Force(unfold(t[3], c), LAMBDA x :
            Force(unfold(t[4], x.c), LAMBDA y :
                URet(mk_ite(t[2], x.r, y.r), y.c, x.failed \/ y.failed)))
    ELSE URet(t, c, FALSE)

(***************************************************************************)
(* If-then-else canonicalisation                                           *)
(***************************************************************************)
\* combine_ites, cases 1a and 1c: the condition is pushed below that of x
push_inwards(x, cond) == is_ite(x) /\ get_id(cond) < get_id(x[2])

collapse_never(x, cond) == FALSE

\* combine_ites, cases 1b and 1d: x tests the very same condition
collapse(x, cond) == is_ite(x) /\ cond = x[2]

RECURSIVE combine_ites(_, _, _, _, _)
combine_ites(k, a, b, cond, c) ==
    LET hit == find(c, k, a, b, cond)
        \* result1, result2 and their combination under the condition cond3
        split(k12, x1, y1, x2, y2, cond12, cond3) ==
            Force(combine_ites(k12, x1, y1, cond12, c), LAMBDA result1 :
                Force(combine_ites(k12, x2, y2, cond12, result1.c), LAMBDA result2 :
                    combine_ites("ite", result1.r, result2.r, cond3, result2.c)))
        computed ==
            IF k = "ite"
            THEN IF push_inwards(a, cond)
                 THEN split(k, a[3], b, a[4], b, cond, a[2])
                 ELSE IF collapse(a, cond)
                 THEN combine_ites(k, a[3], b, cond, c)
                 ELSE IF push_inwards(b, cond)
                 THEN split(k, a, b[3], a, b[4], cond, b[2])
                 ELSE IF collapse(b, cond)
                 THEN combine_ites(k, a, b[4], cond, c)
                 ELSE Ret(mk_ite(cond, a, b), c)
            ELSE IF is_ite(a)
            THEN split(k, a[3], b, a[4], b, null, a[2])
            ELSE IF is_ite(b)
            THEN split(k, a, b[3], a, b[4], null, b[2])
            ELSE Ret(<<k, a, b>>, c)
    IN IF hit # null THEN Ret(hit, c)
       ELSE Force(computed, LAMBDA x : Ret(x.r, insert(x.c, k, a, b, cond, x.r)))

RECURSIVE lift_ites(_, _, _, _)
lift_ites(r, lift_over_union, lift_over_inter, c) ==
    LET k == r[1]
        lift1(F(_)) ==
            Force(lift_ites(r[2], TRUE, TRUE, c), LAMBDA result1 : F(result1))
    IN
    IF \/ (k = "re.union" /\ ~lift_over_union)
       \/ (k = "re.inter" /\ ~lift_over_inter)
    THEN Force(lift_ites(r[2], lift_over_union, lift_over_inter, c), LAMBDA result1 :
            Force(lift_ites(r[3], lift_over_union, lift_over_inter, result1.c),
                  LAMBDA result2 : Ret(<<k, r[2], r[3]>>, result2.c)))
    ELSE IF is_ite(r)
    THEN Force(lift_ites(r[3], TRUE, TRUE, c), LAMBDA result1 :
            Force(lift_ites(r[4], TRUE, TRUE, result1.c), LAMBDA result2 :
                combine_ites(k, r[3], r[4], r[2], result2.c)))
    ELSE IF k \in {"re.++", "re.union", "re.inter", "re.diff"}
    THEN Force(lift_ites(r[2], TRUE, TRUE, c), LAMBDA result1 :
            Force(lift_ites(r[3], TRUE, TRUE, result1.c), LAMBDA result2 :
                combine_ites(k, r[2], r[3], null, result2.c)))
    ELSE IF k \in {"re.*", "re.+", "re.opt", "re.comp", "re.reverse"}
    THEN lift1(LAMBDA result1 : Ret(<<k, r[2]>>, result1.c))
    ELSE IF k = "re.derivative"
    THEN Force(lift_ites(r[3], TRUE, TRUE, c), LAMBDA result1 :
            Ret(<<k, r[2], r[3]>>, result1.c))
    ELSE IF re_is_loop1(r)
    THEN lift1(LAMBDA result1 : Ret(re_mk_loop1(result1.r, r[3]), result1.c))
    ELSE IF re_is_loop2(r)
    THEN lift1(LAMBDA result1 : Ret(re_mk_loop2(result1.r, r[3], r[4]), result1.c))
    ELSE Ret(r, c)

\* no if-then-else occurs in the regex t
RECURSIVE ite_free(_)
ite_free(t) ==
    IF is_ite(t) THEN FALSE
    ELSE IF t[1] \in BinaryOps THEN ite_free(t[2]) /\ ite_free(t[3])
    ELSE IF t[1] \in UnaryOps \cup {"re.loop"} THEN ite_free(t[2])
    ELSE IF t[1] = "re.derivative" THEN ite_free(t[3])
    ELSE TRUE

\* BDD form: the if-then-elses are outermost, the identifiers of their
\* conditions strictly decrease inwards and stay below bound
RECURSIVE bdd_below(_, _)
bdd_below(t, bound) ==
    IF is_ite(t)
    THEN /\ get_id(t[2]) < bound
         /\ bdd_below(t[3], get_id(t[2]))
         /\ bdd_below(t[4], get_id(t[2]))
    ELSE ite_free(t)

is_bdd(t) == bdd_below(t, MaxCond + 1)

(***************************************************************************)
(* Specification SpecRe: a regex term is built operator by operator, then  *)
(* the rewriter is asked for its nullability or for its derivative.        *)
(***************************************************************************)
PredVar == <<"p", 1>>
Conds == {<<"b", i>> : i \in 1..MaxCond}
Chars == {<<"c", 49>>, CharVar}

ReLeaves ==
    { re_mk_empty, re_mk_full_seq, re_mk_full_char,
      re_mk_to_re(mk_empty),
      re_mk_to_re(mk_string(<<49>>)),
      re_mk_to_re(mk_string(<<45, 49>>)),
      re_mk_to_re(mk_unit(CharVar)),
      re_mk_to_re(mk_concat2(mk_unit(CharVar), mk_string(<<49>>))),
      re_mk_to_re(mk_concat2(mk_string(<<45>>), mk_concat2(mk_string(<<49>>), <<"var", 1>>))),
      re_mk_to_re(<<"var", 1>>),
      re_mk_range(mk_string(<<45>>), mk_string(<<49>>)),
      re_mk_range(mk_unit(CharVar), mk_unit(<<"c", 49>>)),
      re_mk_range(mk_string(<<45, 49>>), mk_string(<<49>>)),
      re_mk_star(re_mk_to_re(mk_string(<<49>>))),
      re_mk_of_pred(PredVar),
      re_mk_derivative(<<"c", 49>>, re_mk_to_re(mk_string(<<49>>))) }

\* second operands of the binary operators
ReArgs ==
    { re_mk_to_re(mk_string(<<49>>)), re_mk_full_char,
      re_mk_opt(re_mk_to_re(mk_string(<<45>>))) }


\* the symbol with tag tg occurs in term t
RECURSIVE Uses(_, _)
Uses(t, tg) ==
    \/ t[1] = tg
    \/ /\ t[1] \in {"unit", "str.to_re", "re.of_pred", "not"} \cup UnaryOps
       /\ Uses(t[2], tg)
    \/ /\ t[1] = "re.loop"
       /\ Uses(t[2], tg)
    \/ /\ t[1] \in {"seq.++", "re.range", "re.derivative", "and", "or", "=", "char.<=",
                    "str.in_re", "select"} \cup BinaryOps
       /\ (Uses(t[2], tg) \/ Uses(t[3], tg))
    \/ /\ t[1] = "ite"
       /\ (Uses(t[2], tg) \/ Uses(t[3], tg) \/ Uses(t[4], tg))

\* the assignments to the symbols of term t
ReEnvs(t) ==
    LET cvs == IF Uses(t, "v") THEN [{1} -> Alphabet] ELSE {[k \in {1} |-> 45]}
        svs == IF Uses(t, "var") THEN [{1} -> StringsUpTo(MaxVarLen)]
               ELSE {[k \in {1} |-> <<>>]}
        bvs == IF Uses(t, "b") THEN [1..MaxCond -> BOOLEAN] ELSE {[k \in 1..MaxCond |-> FALSE]}
        pvs == IF Uses(t, "p") THEN [{1} -> SUBSET Alphabet] ELSE {[k \in {1} |-> {}]}
    IN {[cv |-> c, sv |-> s, iv |-> 0, bv |-> b, pv |-> p] :
            c \in cvs, s \in svs, b \in bvs, p \in pvs}

InitRe ==
    /\ IdleApp
    /\ IdleEq
    /\ IdleEx
    /\ m_op_cache = {}
    /\ find_stores \in BOOLEAN
    /\ arg_order \in {"ltr", "rtl"}
    /\ m_coalesce_chars \in BOOLEAN
    /\ m_sa = FALSE
    /\ re_r \in ReLeaves
    /\ re_b = re_mk_empty
    /\ re_ops = 0
    /\ re_call = NoCall

CanBuild == re_call.op = "none" /\ re_ops < MaxReOps

WrapUnary ==
    /\ CanBuild
    /\ \E op \in UnaryOps : re_r' = <<op, re_r>>
    /\ re_ops' = re_ops + 1
    /\ UNCHANGED <<eqVars, cfgVars, appVars, exVars, m_op_cache, re_b, re_call>>

WrapLoop ==
    /\ CanBuild
    /\ \E lo \in 0..MaxLoop :
          \/ re_r' = re_mk_loop1(re_r, lo)
          \/ \E hi \in 0..MaxLoop : re_r' = re_mk_loop2(re_r, lo, hi)
    /\ re_ops' = re_ops + 1
    /\ UNCHANGED <<eqVars, cfgVars, appVars, exVars, m_op_cache, re_b, re_call>>

WrapBinary ==
    /\ CanBuild
    /\ \E op \in BinaryOps, x \in ReArgs :
          \/ re_r' = <<op, re_r, x>>
          \/ re_r' = <<op, x, re_r>>
    /\ re_ops' = re_ops + 1
    /\ UNCHANGED <<eqVars, cfgVars, appVars, exVars, m_op_cache, re_b, re_call>>

WrapIte ==
    /\ CanBuild
    /\ \E cond \in Conds, x \in {re_mk_empty, re_mk_to_re(mk_string(<<49>>))} :
          \/ re_r' = mk_ite(cond, re_r, x)
          \/ re_r' = mk_ite(cond, x, re_r)
    /\ re_ops' = re_ops + 1
    /\ UNCHANGED <<eqVars, cfgVars, appVars, exVars, m_op_cache, re_b, re_call>>

\* is_nullable(re_r)
IsNullable ==
    /\ re_call.op = "none"
    /\ \E n \in {is_nullable(re_r, m_op_cache)} :
          /\ re_call' = Call("is_nullable", "none", null, null, "none", n.r, FALSE)
          /\ m_op_cache' = n.c
    /\ UNCHANGED <<eqVars, cfgVars, appVars, exVars, re_r, re_b, re_ops>>

\* the rewriter meets (re.derivative ele re_r)
Derivative ==
    /\ re_call.op = "none"
    /\ \E ele \in Chars :
       \E d \in {mk_re_derivative(ele, re_r, m_op_cache)} :
       \E u \in {IF d.st = "BR_FAILED" THEN [r |-> null, c |-> d.c, failed |-> TRUE]
                 ELSE unfold(d.result, d.c)} :
          /\ re_call' = Call("mk_re_derivative", "none", null, ele, d.st, u.r, u.failed)
          /\ m_op_cache' = u.c
    /\ UNCHANGED <<eqVars, cfgVars, appVars, exVars, re_r, re_b, re_ops>>

\* lift_ites(re_r, true, true)
LiftItes ==
    /\ re_call.op = "none"
    /\ \E l \in {lift_ites(re_r, TRUE, TRUE, m_op_cache)} :
          /\ re_call' = Call("lift_ites", "none", null, null, "none", l.r, FALSE)
          /\ m_op_cache' = l.c
    /\ UNCHANGED <<eqVars, cfgVars, appVars, exVars, re_r, re_b, re_ops>>

NextRe ==
    WrapUnary \/ WrapLoop \/ WrapBinary \/ WrapIte \/ IsNullable \/ Derivative \/ LiftItes

SpecRe == InitRe /\ [][NextRe]_vars

\* C4: whenever the derivative of re_r by ele is computed without getting
\* stuck, a word w is in its language exactly when (ele w) is in that of re_r
C4_DerivativeExact ==
    (re_call.op = "mk_re_derivative" /\ ~re_call.failed) =>
        \A env \in ReEnvs(re_mk_derivative(re_call.ele, re_r)) :
        \A w \in StringsUpTo(MaxWord) :
            Matches(re_r, <<EvalChar(re_call.ele, env)>> \o w, env)
                <=> Matches(re_call.result, w, env)

\* C5: the boolean term returned by is_nullable(re_r) is true exactly when
\* the empty word is in the language of re_r
C5_NullableExact ==
    (re_call.op = "is_nullable") =>
        \A env \in ReEnvs(re_r) :
            EvalBool(re_call.result, env) <=> Matches(re_r, <<>>, env)

(***************************************************************************)
(* Specification SpecIte: two terms in BDD form are built, then            *)
(* combine_ites is called on them.                                         *)
(***************************************************************************)
IteLeaves == {re_mk_to_re(mk_string(<<49>>)), re_mk_full_char}

\* identifier of the outermost condition of a term in BDD form
top_id(t) == IF is_ite(t) THEN get_id(t[2]) ELSE 0

InitIte ==
    /\ IdleApp
    /\ IdleEq
    /\ IdleEx
    /\ m_op_cache = {}
    /\ find_stores \in BOOLEAN
    /\ arg_order = "ltr"
    /\ m_coalesce_chars = TRUE
    /\ m_sa = FALSE
    /\ re_r \in IteLeaves
    /\ re_b \in IteLeaves
    /\ re_ops = 0
    /\ re_call = NoCall

CanBuildIte == re_call.op = "none" /\ re_ops < MaxIteOps

\* an if-then-else is put on top of the first term
IteFirst ==
    /\ CanBuildIte
    /\ \E cond \in Conds, x \in IteLeaves :
          /\ get_id(cond) > top_id(re_r)
          /\ \/ re_r' = mk_ite(cond, re_r, x)
             \/ re_r' = mk_ite(cond, x, re_r)
    /\ re_ops' = re_ops + 1
    /\ UNCHANGED <<eqVars, cfgVars, appVars, exVars, m_op_cache, re_b, re_call>>

\* an if-then-else is put on top of the second term
IteSecond ==
    /\ CanBuildIte
    /\ \E cond \in Conds, x \in IteLeaves :
          /\ get_id(cond) > top_id(re_b)
          /\ \/ re_b' = mk_ite(cond, re_b, x)
             \/ re_b' = mk_ite(cond, x, re_b)
    /\ re_ops' = re_ops + 1
    /\ UNCHANGED <<eqVars, cfgVars, appVars, exVars, m_op_cache, re_r, re_call>>

\* the two terms become the branches of one if-then-else
IteJoin ==
    /\ CanBuildIte
    /\ \E cond \in Conds :
          /\ get_id(cond) > top_id(re_r)
          /\ get_id(cond) > top_id(re_b)
          /\ re_r' = mk_ite(cond, re_r, re_b)
    /\ re_ops' = re_ops + 1
    /\ UNCHANGED <<eqVars, cfgVars, appVars, exVars, m_op_cache, re_b, re_call>>

\* combine_ites(k, re_r, re_b, nullptr) for a binary regex operator k
CombineOp ==
    /\ re_call.op = "none"
    /\ \E k \in BinaryOps :
       \E x \in {combine_ites(k, re_r, re_b, null, m_op_cache)} :
          /\ re_call' = Call("combine_ites", k, null, null, "none", x.r, FALSE)
          /\ m_op_cache' = x.c
    /\ UNCHANGED <<eqVars, cfgVars, appVars, exVars, re_r, re_b, re_ops>>

\* combine_ites(OP_ITE, re_r, re_b, cond)
CombineIte ==
    /\ re_call.op = "none"
    /\ \E cond \in Conds :
       \E x \in {combine_ites("ite", re_r, re_b, cond, m_op_cache)} :
          /\ re_call' = Call("combine_ites", "ite", cond, null, "none", x.r, FALSE)
          /\ m_op_cache' = x.c
    /\ UNCHANGED <<eqVars, cfgVars, appVars, exVars, re_r, re_b, re_ops>>

NextIte == IteFirst \/ IteSecond \/ IteJoin \/ CombineOp \/ CombineIte

SpecIte == InitIte /\ [][NextIte]_vars

\* the operands of combine_ites are in BDD form
IteOperandsAreBdd == is_bdd(re_r) /\ is_bdd(re_b)

\* C6: combine_ites called on two terms in BDD form returns a term in BDD
\* form: if-then-elses above all other operators, condition identifiers
\* strictly decreasing inwards
C6_CombineGivesBdd ==
    (re_call.op = "combine_ites" /\ is_bdd(re_r) /\ is_bdd(re_b)) =>
        is_bdd(re_call.result)

\* combine_ites was called on two if-then-elses with different conditions
\* and pushed a binary operator below both
C6_Witness ==
    /\ re_call.op = "combine_ites"
    /\ re_call.k = "re.union"
    /\ is_ite(re_r) /\ is_ite(re_b) /\ re_r[2] # re_b[2]
    /\ is_ite(re_r[3]) /\ is_bdd(re_r) /\ is_bdd(re_b)
    /\ is_ite(re_call.result) /\ is_ite(re_call.result[3])

\* C7: lift_ites(r, true, true) returns a term in BDD form
C7_LiftGivesBdd ==
    (re_call.op = "lift_ites") => is_bdd(re_call.result)

(***************************************************************************)
(* Specification SpecCache: combine_ites and is_nullable_rec are called    *)
(* one after the other on the same rewriter, whose cache persists.         *)
(***************************************************************************)
CacheTerms ==
    LET A == re_mk_to_re(mk_string(<<49>>))
        B == re_mk_full_char
    IN { A, B, mk_ite(<<"b", 1>>, A, B), mk_ite(<<"b", 2>>, B, A),
         mk_ite(<<"b", 2>>, mk_ite(<<"b", 1>>, A, B), B) }

NullableTerms ==
    CacheTerms \cup {re_mk_concat(x, x) : x \in CacheTerms}
               \cup {re_mk_diff(x, re_mk_star(x)) : x \in CacheTerms}

CacheConds == {<<"b", 1>>, <<"b", 2>>}

InitCache ==
    /\ IdleApp
    /\ IdleEq
    /\ IdleEx
    /\ m_op_cache = {}
    /\ find_stores \in BOOLEAN
    /\ arg_order \in {"ltr", "rtl"}
    /\ m_coalesce_chars = TRUE
    /\ m_sa = FALSE
    /\ re_r = re_mk_empty
    /\ re_b = re_mk_empty
    /\ re_ops = 0
    /\ re_call = NoCall

\* whether the call is answered by the lookup it starts with
Answered(op, a, b, c) ==
    IF find(m_op_cache, op, a, b, c) # null THEN "hit" ELSE "miss"

\* combine_ites(k, a, b, nullptr) for a binary regex operator k
CachedCombineOp ==
    /\ re_ops < MaxCalls
    /\ \E k \in {"re.diff"}, a \in CacheTerms, b \in CacheTerms :
       \E x \in {combine_ites(k, a, b, null, m_op_cache)} :
          /\ re_r' = a
          /\ re_b' = b
          /\ re_call' = Call("combine_ites", k, null, null, Answered(k, a, b, null),
                             x.r, FALSE)
          /\ m_op_cache' = x.c
    /\ re_ops' = re_ops + 1
    /\ UNCHANGED <<eqVars, cfgVars, appVars, exVars>>

\* combine_ites(OP_ITE, a, b, cond)
CachedCombineIte ==
    /\ re_ops < MaxCalls
    /\ \E cond \in CacheConds, a \in CacheTerms, b \in CacheTerms :
       \E x \in {combine_ites("ite", a, b, cond, m_op_cache)} :
          /\ re_r' = a
          /\ re_b' = b
          /\ re_call' = Call("combine_ites", "ite", cond, null,
                             Answered("ite", a, b, cond), x.r, FALSE)
          /\ m_op_cache' = x.c
    /\ re_ops' = re_ops + 1
    /\ UNCHANGED <<eqVars, cfgVars, appVars, exVars>>

\* is_nullable_rec(r)
CachedNullable ==
    /\ re_ops < MaxCalls
    /\ \E r \in NullableTerms :
       \E x \in {is_nullable_rec(r, m_op_cache)} :
          /\ re_r' = r
          /\ re_b' = re_mk_empty
          /\ re_call' = Call("is_nullable_rec", "none", null, null,
                             Answered("_OP_RE_IS_NULLABLE", r, null, null), x.r, FALSE)
          /\ m_op_cache' = x.c
    /\ re_ops' = re_ops + 1
    /\ UNCHANGED <<eqVars, cfgVars, appVars, exVars>>

NextCache == CachedCombineOp \/ CachedCombineIte \/ CachedNullable

SpecCache == InitCache /\ [][NextCache]_vars

\* what the last call returns on a rewriter whose cache is empty
FreshResult ==
    IF re_call.op = "combine_ites"
    THEN combine_ites(re_call.k, re_r, re_b, re_call.cond, {}).r
    ELSE is_nullable_rec(re_r, {}).r

\* C8: whatever calls came before and whatever the cache holds, a call
\* returns the term it returns when computed with an empty cache
C8_CacheTransparent ==
    (re_call.op # "none") => re_call.result = FreshResult

\* a call is answered from the cache with a nested if-then-else; computing
\* that term took more insertions than the cache holds, so the cache was
\* reset on the way
C8_Witness ==
    /\ re_call.op = "combine_ites"
    /\ re_call.st = "hit"
    /\ is_ite(re_call.result)
    /\ is_ite(re_call.result[3])
    /\ re_call.result = FreshResult

(***************************************************************************)
(* Extraction of a subsequence.                                            *)
(* Integer terms: <<"int", hi, lo>> is the numeral hi * 2^16 + lo with      *)
(* 0 <= lo < 2^16 (two words, so that the whole 32-bit range and its       *)
(* neighbourhood can be told apart), <<"seq.len", s>>, <<"+", args>>,       *)
(* <<"*", args>>, <<"-", a, b>>, <<">=", a, b>> and <<"ivar", k>>.          *)
(* Sequence terms gain <<"seq.extract", s, pos, len>>.                      *)
(***************************************************************************)
Word == 2 ^ 16

\* a rational with an integer value, as the record [hi, lo]
rational(n) == [hi |-> n \div Word, lo |-> n % Word]
rat_add(x, y) ==
    [hi |-> x.hi + y.hi + ((x.lo + y.lo) \div Word), lo |-> (x.lo + y.lo) % Word]
rat_neg(x) ==
    [hi |-> (0 - x.hi) - (IF x.lo = 0 THEN 0 ELSE 1), lo |-> (Word - x.lo) % Word]
rat_is_neg(x) == x.hi < 0
rat_is_pos(x) == x.hi > 0 \/ (x.hi = 0 /\ x.lo > 0)
rat_ge(x, y) == x.hi > y.hi \/ (x.hi = y.hi /\ x.lo >= y.lo)
\* rational::is_unsigned: the value fits an unsigned 32-bit integer
rat_is_unsigned(x) == 0 <= x.hi /\ x.hi < Word

\* unsigned 32-bit arithmetic on [hi, lo]
u_add(x, y) == [hi |-> (x.hi + y.hi + ((x.lo + y.lo) \div Word)) % Word,
                lo |-> (x.lo + y.lo) % Word]
u_sub(x, y) == u_add(x, [hi |-> (rat_neg(y).hi) % Word, lo |-> rat_neg(y).lo])
\* the same bits read as a signed 32-bit integer
as_int(x) == [hi |-> ((x.hi + Word \div 2) % Word) - Word \div 2, lo |-> x.lo]

mk_int(x) == <<"int", x.hi, x.lo>>
is_numeral(e) == e[1] = "int"
numeral(e) == [hi |-> e[2], lo |-> e[3]]
is_add(e) == e[1] = "+"
is_mul(e) == e[1] = "*"
is_length(e) == e[1] = "seq.len"
is_extract(e) == e[1] = "seq.extract"
mk_add(x, y) == <<"+", <<x, y>>>>
mk_sub(x, y) == <<"-", x, y>>
mk_ge(x, y) == <<">=", x, y>>
mk_length(s) == <<"seq.len", s>>
mk_substr(s, pos, len) == <<"seq.extract", s, pos, len>>

\* zstring::extract(offset, len): the characters from offset up to
\* min(offset + len, length()), the sum being taken in 32-bit integers
zstring_extract(s, offset, len) ==
    LET sum == as_int(u_add(offset, len))
        last == IF rat_ge(sum, rational(Len(s))) THEN Len(s)
                ELSE IF rat_is_neg(sum) THEN 0 ELSE sum.lo
    IN IF offset.hi = 0 THEN SubSeq(s, offset.lo + 1, last) ELSE <<>>

RECURSIVE get_concat_units(_)
get_concat_units(e) ==
    IF is_concat(e) THEN get_concat_units(e[2]) \o get_concat_units(e[3])
    ELSE IF is_string(e) THEN [i \in 1..Len(e[2]) |-> mk_unit(<<"c", e[2][i]>>)]
    ELSE IF is_empty(e) THEN <<>>
    ELSE <<e>>

contains(es, x) == \E i \in 1..Len(es) : es[i] = x

\* expr_ref_vector::erase: the first occurrence of x is removed
erase(es, x) ==
    LET i == CHOOSE j \in 1..Len(es) : es[j] = x /\ \A h \in 1..(j - 1) : es[h] # x
    IN SubSeq(es, 1, i - 1) \o SubSeq(es, i + 1, Len(es))

RECURSIVE sign_is_determined(_)
sign_is_determined(e) ==
    LET SRet(ok, s) == [ok |-> ok, s |-> s]
        sum[i \in 1..(Len(e[2]) + 1), s \in {"sign_zero", "sign_pos", "sign_neg"}] ==
            IF i > Len(e[2]) THEN SRet(TRUE, s)
            ELSE Force(sign_is_determined(e[2][i]), LAMBDA s1 :
                    IF ~s1.ok THEN SRet(FALSE, s)
                    ELSE IF s = "sign_zero" THEN sum[i + 1, s1.s]
                    ELSE IF s1.s = "sign_zero" THEN sum[i + 1, s]
                    ELSE IF s1.s # s THEN SRet(FALSE, s)
                    ELSE sum[i + 1, s])
        product[i \in 1..(Len(e[2]) + 1), s \in {"sign_zero", "sign_pos", "sign_neg"}] ==
            IF i > Len(e[2]) THEN SRet(TRUE, s)
            ELSE Force(sign_is_determined(e[2][i]), LAMBDA s1 :
                    IF ~s1.ok THEN SRet(FALSE, s)
                    ELSE IF s1.s = "sign_zero" THEN SRet(TRUE, "sign_zero")
                    ELSE IF s = "sign_zero" THEN product[i + 1, s1.s]
                    ELSE IF s # s1.s THEN product[i + 1, "sign_neg"]
                    ELSE product[i + 1, "sign_pos"])
    IN IF is_add(e) THEN sum[1, "sign_zero"]
       ELSE IF is_mul(e) THEN product[1, "sign_zero"]
       ELSE IF is_length(e) THEN SRet(TRUE, "sign_pos")
       ELSE IF is_numeral(e)
       THEN SRet(TRUE, IF rat_is_pos(numeral(e)) THEN "sign_pos"
                       ELSE IF rat_is_neg(numeral(e)) THEN "sign_neg"
                       ELSE "sign_zero")
       ELSE SRet(FALSE, "sign_zero")

\* get_lengths(e, lens, pos): [ok, lens, pos] afterwards
RECURSIVE get_lengths(_, _, _)
get_lengths(e, lens, pos) ==
    LET LRet(ok, l, p) == [ok |-> ok, lens |-> l, pos |-> p]
    IN IF is_add(e)
       THEN LET RECURSIVE walk(_, _)
                walk(i, acc) ==
                    IF i > Len(e[2]) THEN acc
                    ELSE Force(get_lengths(e[2][i], acc.lens, acc.pos), LAMBDA r :
                            IF r.ok THEN walk(i + 1, r) ELSE r)
            IN walk(1, LRet(TRUE, lens, pos))
       ELSE IF is_length(e) THEN LRet(TRUE, Append(lens, e[2]), pos)
       ELSE IF is_numeral(e) THEN LRet(TRUE, lens, rat_add(pos, numeral(e)))
       ELSE LRet(FALSE, lens, pos)

is_suffix(s, offset, len) ==
    Force(get_lengths(len, <<>>, rational(0)), LAMBDA g :
        /\ g.ok
        /\ is_numeral(offset)
        /\ rat_is_pos(numeral(offset))
        /\ rat_neg(g.pos) = numeral(offset)
        /\ contains(g.lens, s))

ERet(st, rule, result) == [st |-> st, rule |-> rule, result |-> result]

\* case 1: len is a numeral and not positive (the mutant forgets len = 0)
len_not_positive_strict(constantLen, len) == constantLen /\ rat_is_neg(len)

len_not_positive(constantLen, len) == constantLen /\ ~rat_is_pos(len)

\* the leading operands of es that lens or pos account for:
\* [i, lens, pos] when the loop over m_lhs stops
RECURSIVE strip_lengths(_, _, _, _)
strip_lengths(es, i, lens, pos) ==
    IF i >= Len(es) THEN [i |-> i, lens |-> lens, pos |-> pos]
    ELSE IF contains(lens, es[i + 1])
    THEN strip_lengths(es, i + 1, erase(lens, es[i + 1]), pos)
    ELSE IF is_unit(es[i + 1]) /\ rat_is_pos(pos)
    THEN strip_lengths(es, i + 1, lens, rat_add(pos, rational(-1)))
    ELSE [i |-> i, lens |-> lens, pos |-> pos]

\* t2 = mk_int(pos) + len(rhs) + ... for the remaining lens
RECURSIVE add_lengths(_, _)
add_lengths(t2, lens) ==
    IF lens = <<>> THEN t2
    ELSE add_lengths(mk_add(t2, mk_length(Head(lens))), Tail(lens))

\* number of leading units of es, counted from i and at most limit - i
RECURSIVE count_units(_, _, _)
count_units(es, i, limit) ==
    IF i < Len(es) /\ is_unit(es[i + 1]) /\ rat_ge(limit, rational(i + 1))
    THEN count_units(es, i + 1, limit)
    ELSE i

\* the if-then-else chain built for (extract (++ units) 0 c)
RECURSIVE prefix_ites(_, _, _)
prefix_ites(es, c, i) ==
    IF i = 0 THEN mk_empty
    ELSE mk_ite(mk_ge(c, mk_int(rational(i))), mk_concat(SubSeq(es, 1, i)),
                prefix_ites(es, c, i - 1))

mk_seq_extract(a, b, c) ==
    LET constantBase == is_string(a)
        s == a[2]
        constantPos0 == is_numeral(b)
        constantLen0 == is_numeral(c)
        pos == IF constantPos0 THEN numeral(b) ELSE rational(0)
        len == IF constantLen0 THEN numeral(c) ELSE rational(0)
        lengthPos == is_length(b) \/ is_add(b)
        sg == sign_is_determined(c)
        constantPos == constantPos0 /\ rat_is_unsigned(pos)
        constantLen == constantLen0 /\ rat_is_unsigned(len)
        as == get_concat_units(a)
        m_lhs == get_concat(a)
        \* the rules for a position that is a length or a sum
        by_lengths ==
            Force(get_lengths(b, <<>>, pos), LAMBDA g :
                IF ~g.ok \/ rat_is_neg(g.pos) THEN ERet("BR_FAILED", "lengths", null)
                ELSE Force(strip_lengths(m_lhs, 0, g.lens, g.pos), LAMBDA w :
                        IF w.i = 0 THEN ERet("BR_FAILED", "lengths", null)
                        ELSE ERet("BR_REWRITE2", "lengths",
                                  mk_substr(mk_concat(SubSeq(m_lhs, w.i + 1, Len(m_lhs))),
                                            add_lengths(mk_int(w.pos), w.lens), c))))
        \* the rules for a numeral position _pos
        by_units ==
            LET offset == count_units(as, 0, pos)
                rest == SubSeq(as, offset + 1, Len(as))
                i == offset + count_units(rest, 0, len)
            IN IF pos = rational(0) /\ is_length(c) /\ m_lhs # <<>> /\ m_lhs[1] = c[2]
               THEN ERet("BR_DONE", "whole", c[2])
               ELSE IF is_extract(a) /\ is_suffix(a[2], a[3], a[4]) /\ is_suffix(a, b, c)
               THEN ERet("BR_REWRITE3", "suffix",
                         mk_substr(a[2], mk_add(a[3], b), mk_sub(a[4], b)))
               ELSE IF offset = 0 /\ rat_is_pos(pos)
               THEN ERet("BR_FAILED", "units", null)
               ELSE IF pos = rational(0) /\ \A j \in 1..Len(as) : is_unit(as[j])
               THEN ERet("BR_REWRITE_FULL", "prefixes", prefix_ites(as, c, Len(as)))
               ELSE IF pos = rational(0) /\ ~constantLen
               THEN ERet("BR_FAILED", "units", null)
               ELSE IF offset = Len(as)
               THEN ERet("BR_DONE", "past units", mk_empty)
               ELSE IF constantLen /\ pos = rational(offset) /\ rational(i - offset) = len
               THEN ERet("BR_DONE", "units", mk_concat(SubSeq(as, offset + 1, i)))
               ELSE IF constantLen /\ pos = rational(offset) /\ i = Len(as)
               THEN ERet("BR_DONE", "units", mk_concat(rest))
               ELSE IF offset = 0
               THEN ERet("BR_FAILED", "units", null)
               ELSE ERet("BR_REWRITE3", "units",
                         mk_substr(mk_concat(rest), mk_sub(b, mk_int(rational(offset))), c))
    IN
    IF sg.ok /\ sg.s = "sign_neg"
    THEN ERet("BR_DONE", "sign", mk_empty)
    ELSE IF (constantPos0 /\ rat_is_neg(pos)) \/ len_not_positive(constantLen0, len)
    THEN ERet("BR_DONE", "case 1", mk_empty)
    ELSE IF constantPos0 /\ constantBase /\ rat_ge(pos, rational(Len(s)))
    THEN ERet("BR_DONE", "case 1.1", mk_empty)
    ELSE IF constantPos /\ constantLen /\ constantBase
    THEN IF rat_ge(u_add(pos, len), rational(Len(s)))
         THEN ERet("BR_DONE", "case 2",
                   mk_string(zstring_extract(s, pos,
                                             u_add(u_sub(rational(Len(s)), pos), rational(1)))))
         ELSE ERet("BR_DONE", "case 3", mk_string(zstring_extract(s, pos, len)))
    ELSE IF as = <<>>
    THEN ERet("BR_DONE", "empty base", mk_empty)
    ELSE IF lengthPos THEN by_lengths
    ELSE IF ~constantPos THEN ERet("BR_FAILED", "position", null)
    ELSE by_units

(***************************************************************************)
(* Specification SpecExtract: the rewriter meets (seq.extract a b c).      *)
(***************************************************************************)
\* 2^32 - 2, 2^32 - 1, 2^32 and 2^32 + 1
Around32 == {[hi |-> Word - 1, lo |-> Word - 2], [hi |-> Word - 1, lo |-> Word - 1],
             [hi |-> Word, lo |-> 0], [hi |-> Word, lo |-> 1]}

ExNumerals == {rational(n) : n \in (0 - 2)..MaxSmall} \cup Around32
              \cup {rat_neg(x) : x \in Around32}

ExInts ==
    LET x == <<"var", 1>>
        n == <<"ivar", 1>>
        one == mk_int(rational(1))
        minus == mk_int(rational(-1))
    IN {mk_int(v) : v \in ExNumerals}
       \cup { n, mk_length(x), mk_add(mk_length(x), one), mk_add(mk_length(x), minus),
              mk_add(minus, minus), mk_add(n, one), <<"*", <<mk_length(x), minus>>>>,
              <<"*", <<minus, minus>>>>, <<"*", <<n, mk_int(rational(0))>>>>,
              mk_add(mk_length(<<"var", 2>>), mk_length(x)),
              mk_add(mk_length(mk_substr(x, one, mk_add(mk_length(x), minus))), minus) }

ExSeqs ==
    LET x == <<"var", 1>>
        y == <<"var", 2>>
        u == mk_unit(CharVar)
        k == mk_unit(<<"c", 49>>)
    IN {mk_string(s) : s \in StringsUpTo(MaxBase)}
       \cup { mk_empty, x, u, mk_concat2(u, k), mk_concat2(u, x), mk_concat2(x, y),
              mk_concat2(k, mk_concat2(u, x)), mk_concat2(mk_string(<<45, 49>>), x),
              mk_substr(x, mk_int(rational(1)),
                        mk_add(mk_length(x), mk_int(rational(-1)))) }

InitExtract ==
    /\ IdleApp
    /\ IdleEq
    /\ IdleRe
    /\ ex_a \in ExSeqs
    /\ ex_b \in ExInts
    /\ ex_c \in ExInts
    /\ ex_call = NoExtract

MkSeqExtract ==
    /\ ex_call.st = "none"
    /\ ex_call' = mk_seq_extract(ex_a, ex_b, ex_c)
    /\ UNCHANGED <<eqVars, cfgVars, appVars, reVars, ex_a, ex_b, ex_c>>

NextExtract == MkSeqExtract

SpecExtract == InitExtract /\ [][NextExtract]_vars

\* pos is a negative numeral, or len is a numeral that is not positive
EmptyByBounds ==
    \/ (is_numeral(ex_b) /\ rat_is_neg(numeral(ex_b)))
    \/ (is_numeral(ex_c) /\ ~rat_is_pos(numeral(ex_c)))

\* C9: when pos is a negative numeral or len a numeral that is zero or
\* negative, mk_seq_extract returns the empty sequence with BR_DONE, by one
\* of its first two rules, whatever the sequence is
C9_EmptyWhenOutOfRange ==
    (ex_call.st # "none" /\ EmptyByBounds) =>
        /\ ex_call.st = "BR_DONE"
        /\ ex_call.result = mk_empty
        /\ ex_call.rule \in {"sign", "case 1"}

\* the sequence is symbolic, len is the numeral 0 and pos a positive numeral
C9_Witness ==
    /\ ex_call.st = "BR_DONE"
    /\ ex_a = mk_concat2(<<"var", 1>>, <<"var", 2>>)
    /\ ex_b = mk_int(rational(1))
    /\ ex_c = mk_int(rational(0))
    /\ ex_call.result = mk_empty

\* s[pos .. min(|s|, pos + len)), the sum taken in the integers
Substring(s, pos, len) ==
    IF rat_ge(pos, rational(Len(s))) THEN <<>>
    ELSE SubSeq(s, pos.lo + 1,
                IF rat_ge(rat_add(pos, len), rational(Len(s))) THEN Len(s)
                ELSE rat_add(pos, len).lo)

\* C10: for a literal s and numerals 0 <= pos and 0 < len that fit 32 bits
\* unsigned, mk_seq_extract returns the literal s[pos .. min(|s|, pos+len))
C10_ConcreteExtract ==
    ( /\ ex_call.st # "none"
      /\ is_string(ex_a) /\ is_numeral(ex_b) /\ is_numeral(ex_c)
      /\ rat_is_unsigned(numeral(ex_b)) /\ rat_is_unsigned(numeral(ex_c))
      /\ rat_is_pos(numeral(ex_c)) ) =>
        /\ ex_call.st = "BR_DONE"
        /\ (IF is_string(ex_call.result) THEN ex_call.result[2] ELSE <<>>)
              = Substring(ex_a[2], numeral(ex_b), numeral(ex_c))

(***************************************************************************)
(* Operator simplifiers.  Every simplifier returns [st, result]; st is the *)
(* br_status and result is null when st is BR_FAILED.                      *)
(* Further terms: <<"seq.index", s, t, i>>, <<"seq.replace", s, t, r>>,    *)
(* <<"seq.prefix", a, b>>, <<"seq.suffix", a, b>>, <<"seq.contains", a, b>>,*)
(* <<"str.to_int", s>>, <<"itos", n>>, <<"<=", x, y>>, <<"rat", n, d>> (the *)
(* numeral n/d, d > 1), <<"and*", es>> and <<"or*", es>>, the conjunction   *)
(* and the disjunction of a list.                                          *)
(***************************************************************************)
ARet(st, result) == [st |-> st, result |-> result]

zero == mk_int(rational(0))
one == mk_int(rational(1))
minus_one == mk_int(rational(-1))

mk_mul(x, y) == <<"*", <<x, y>>>>
a_mk_le(x, y) == <<"<=", x, y>>
mk_index(a, b, c) == <<"seq.index", a, b, c>>
mk_replace(a, b, c) == <<"seq.replace", a, b, c>>
mk_prefix(a, b) == <<"seq.prefix", a, b>>
mk_suffix(a, b) == <<"seq.suffix", a, b>>
mk_contains(a, b) == <<"seq.contains", a, b>>
mk_stoi(a) == <<"str.to_int", a>>
mk_itos(a) == <<"itos", a>>
mk_is_empty(s) == mk_eq(s, mk_empty)

\* the value of a rational that fits the model's integers
rat_to_int(x) == x.hi * Word + x.lo
rat_mul(x, y) == rational(rat_to_int(x) * rat_to_int(y))

(***************************************************************************)
(* The textual definitions of the operators, on values.                    *)
(***************************************************************************)
IsPrefixOf(t, s) == Len(t) <= Len(s) /\ SubSeq(s, 1, Len(t)) = t
IsSuffixOf(t, s) == Len(t) <= Len(s) /\ SubSeq(s, Len(s) - Len(t) + 1, Len(s)) = t
OccursAt(t, s, j) == j + Len(t) <= Len(s) /\ SubSeq(s, j + 1, j + Len(t)) = t
Contains(s, t) == \E j \in 0..Len(s) : OccursAt(t, s, j)

\* the first position at or after i where t occurs in s, -1 if there is
\* none or i is outside 0..|s|; i is a rational
IndexOf(s, t, i) ==
    IF rat_is_neg(i) \/ ~rat_ge(rational(Len(s)), i) THEN rational(-1)
    ELSE LET hits == {j \in (i.lo)..Len(s) : OccursAt(t, s, j)}
         IN IF hits = {} THEN rational(-1)
            ELSE rational(CHOOSE j \in hits : \A h \in hits : j <= h)

\* s with the first occurrence of t replaced by r
ReplaceFirst(s, t, r) ==
    IF ~Contains(s, t) THEN s
    ELSE LET j == rat_to_int(IndexOf(s, t, rational(0)))
         IN SubSeq(s, 1, j) \o r \o SubSeq(s, j + Len(t) + 1, Len(s))

\* the value of str.to_int: the decimal value of a non-empty digit string,
\* -1 for every other string
StoiValue(s) ==
    IF s # <<>> /\ \A i \in 1..Len(s) : IsDigit(s[i]) THEN DigitsValue(s, 0) ELSE -1

\* the value of a term under the assignment env = [cv, sv, iv]: a character
\* code, a string, a rational [hi, lo] or a boolean
RECURSIVE Val(_, _)
Val(t, env) ==
    LET k == t[1]
        V(x) == Val(x, env)
        RECURSIVE sum(_)
        sum(es) == IF es = <<>> THEN rational(0) ELSE rat_add(V(Head(es)), sum(Tail(es)))
        RECURSIVE prod(_)
        prod(es) == IF es = <<>> THEN rational(1) ELSE rat_mul(V(Head(es)), prod(Tail(es)))
    IN CASE k = "c" -> t[2]
         [] k = "v" -> env.cv[t[2]]
         [] k = "unit" -> <<V(t[2])>>
         [] k = "str" -> t[2]
         [] k = "empty" -> <<>>
         [] k = "var" -> env.sv[t[2]]
         [] k = "seq.++" -> V(t[2]) \o V(t[3])
         [] k = "itos" -> ItosValue(rat_to_int(V(t[2])))
         [] k = "seq.replace" -> ReplaceFirst(V(t[2]), V(t[3]), V(t[4]))
         [] k = "int" -> numeral(t)
         [] k = "ivar" -> rational(env.iv)
         [] k = "+" -> sum(t[2])
         [] k = "*" -> prod(t[2])
         [] k = "-" -> rat_add(V(t[2]), rat_neg(V(t[3])))
         [] k = "seq.len" -> rational(Len(V(t[2])))
         [] k = "seq.index" -> IndexOf(V(t[2]), V(t[3]), V(t[4]))
         [] k = "str.to_int" -> rational(StoiValue(V(t[2])))
         [] k = "true" -> TRUE
         [] k = "false" -> FALSE
         [] k = "not" -> ~V(t[2])
         [] k = "and" -> V(t[2]) /\ V(t[3])
         [] k = "or" -> V(t[2]) \/ V(t[3])
         [] k = "and*" -> \A i \in 1..Len(t[2]) : V(t[2][i])
         [] k = "or*" -> \E i \in 1..Len(t[2]) : V(t[2][i])
         [] k = "=" -> V(t[2]) = V(t[3])
         [] k = ">=" -> rat_ge(V(t[2]), V(t[3]))
         [] k = "<=" -> rat_ge(V(t[3]), V(t[2]))
         [] k = "ite" -> IF V(t[2]) THEN V(t[3]) ELSE V(t[4])
         [] k = "seq.prefix" -> IsPrefixOf(V(t[2]), V(t[3]))
         [] k = "seq.suffix" -> IsSuffixOf(V(t[2]), V(t[3]))
         [] k = "seq.contains" -> Contains(V(t[2]), V(t[3]))

(***************************************************************************)
(* index-of                                                                *)
(***************************************************************************)
\* zstring::indexofu(other, offset): the first position at or after offset
\* where other occurs, -1 if there is none
zstring_indexofu(s, other, offset) == IndexOf(s, other, offset)

\* the operands of es that are not units, with those of bs cancelled one
\* for one: [mults, b_has_foreign]
RECURSIVE cancel_mults(_, _, _)
cancel_mults(mults, bs, foreign) ==
    IF bs = <<>> THEN [mults |-> mults, b_has_foreign |-> foreign]
    ELSE IF is_unit(Head(bs)) THEN cancel_mults(mults, Tail(bs), foreign)
    ELSE IF contains(mults, Head(bs))
    THEN cancel_mults(erase(mults, Head(bs)), Tail(bs), foreign)
    ELSE cancel_mults(mults, Tail(bs), TRUE)

\* a comparison that counts the units only
compare_lengths_units(as, bs) ==
    LET units_a == Len(SelectSeq(as, is_unit))
        units_b == Len(SelectSeq(bs, is_unit))
    IN IF units_a > units_b THEN "longer_c"
       ELSE IF units_a = units_b THEN "same_length_c"
       ELSE "shorter_c"

compare_lengths(as, bs) ==
    LET units_a == Len(SelectSeq(as, is_unit))
        units_b == Len(SelectSeq(bs, is_unit))
        not_unit(e) == ~is_unit(e)
        m == cancel_mults(SelectSeq(as, not_unit), bs, FALSE)
    IN IF units_a > units_b /\ ~m.b_has_foreign THEN "longer_c"
       ELSE IF units_a = units_b /\ ~m.b_has_foreign /\ m.mults = <<>> THEN "same_length_c"
       ELSE IF units_b > units_a /\ m.mults = <<>> THEN "shorter_c"
       ELSE "unknown_c"

\* the leading units of as that are provably distinct from the unit b0
RECURSIVE count_distinct(_, _, _)
count_distinct(as, b0, i) ==
    IF i < Len(as) /\ is_unit(as[i + 1]) /\ are_distinct(as[i + 1], b0)
    THEN count_distinct(as, b0, i + 1)
    ELSE i

\* the rule for a start that is a negative numeral, left out
start_is_negative_never(isn, r) == FALSE

\* the start is a negative numeral
start_is_negative(isn, r) == isn /\ rat_is_neg(r)

mk_seq_index(a, b, c) ==
    LET isc1 == is_string(a)
        isc2 == is_string(b)
        isn == is_numeral(c)
        r == IF isn THEN numeral(c) ELSE rational(0)
        as == get_concat_units(a)
        bs == get_concat_units(b)
        shifted(i, idx) ==
            mk_ite(mk_ge(idx, zero), mk_add(mk_int(rational(i)), idx), minus_one)
        \* the units the start position skips
        i1 == IF isn THEN count_units(as, 0, r) ELSE 0
        is_zero == isn /\ r = rational(0)
        \* the units that cannot start an occurrence
        i2 == IF is_zero /\ bs # <<>> /\ is_unit(bs[1])
              THEN count_distinct(as, bs[1], 0) ELSE 0
        cmp == compare_lengths(as, bs)
    IN
    IF isc1 /\ isc2 /\ isn /\ rat_is_unsigned(r)
    THEN ARet("BR_DONE", mk_int(zstring_indexofu(a[2], b[2], r)))
    ELSE IF start_is_negative(isn, r)
    THEN ARet("BR_DONE", minus_one)
    ELSE IF is_empty(b) /\ isn /\ r = rational(0)
    THEN ARet("BR_DONE", c)
    ELSE IF is_empty(a)
    THEN ARet("BR_REWRITE2",
              mk_ite(m_mk_and(mk_eq(c, zero), mk_is_empty(b)), zero, minus_one))
    ELSE IF a = b
    THEN IF isn THEN ARet("BR_DONE", IF r = rational(0) THEN zero ELSE minus_one)
         ELSE ARet("BR_REWRITE2", mk_ite(mk_eq(zero, c), zero, minus_one))
    ELSE IF i1 > 0
    THEN ARet("BR_REWRITE_FULL",
              shifted(i1, mk_index(mk_concat(SubSeq(as, i1 + 1, Len(as))), b,
                                   mk_int(rat_add(r, rational(0 - i1))))))
    ELSE IF i2 > 0
    THEN ARet("BR_REWRITE_FULL",
              shifted(i2, mk_index(mk_concat(SubSeq(as, i2 + 1, Len(as))), b, c)))
    ELSE IF cmp = "shorter_c" /\ is_zero
    THEN ARet("BR_DONE", minus_one)
    ELSE IF cmp = "same_length_c"
    THEN ARet("BR_REWRITE_FULL",
              mk_ite(a_mk_le(c, minus_one), minus_one,
                     mk_ite(mk_eq(c, zero), mk_ite(mk_eq(a, b), zero, minus_one),
                            minus_one)))
    ELSE IF is_zero /\ as # <<>> /\ is_unit(as[1])
    THEN LET b1 == mk_index(mk_concat(Tail(as)), b, c)
         IN ARet("BR_REWRITE3",
                 mk_ite(mk_prefix(b, a), zero,
                        mk_ite(mk_ge(b1, zero), mk_add(one, b1), minus_one)))
    ELSE ARet("BR_FAILED", null)

(***************************************************************************)
(* Specification SpecIndex: the rewriter meets (seq.index s t i).          *)
(***************************************************************************)
MaxIdxLen == 3       \* length of the literals of an index-of

IdxSeqs ==
    LET x == <<"var", 1>>
        y == <<"var", 2>>
        u == mk_unit(CharVar)
        k == mk_unit(<<"c", 49>>)
    IN {mk_string(s) : s \in StringsUpTo(MaxIdxLen)}
       \cup { mk_empty, x, u, k, mk_concat2(u, x), mk_concat2(k, x), mk_concat2(x, y),
              mk_concat2(y, x), mk_concat2(k, mk_concat2(u, x)),
              mk_concat2(mk_string(<<45, 49>>), x) }

IdxPats ==
    LET x == <<"var", 1>>
        y == <<"var", 2>>
    IN {mk_string(s) : s \in StringsUpTo(2)}
       \cup { mk_empty, x, mk_unit(CharVar), mk_unit(<<"c", 45>>), mk_concat2(x, y),
              mk_concat2(mk_unit(<<"c", 45>>), x),
              mk_concat2(mk_unit(<<"c", 45>>), mk_unit(CharVar)) }

IdxInts ==
    {mk_int(v) : v \in ExNumerals} \cup {<<"ivar", 1>>}

InitIndex ==
    /\ IdleEq
    /\ IdleRe
    /\ IdleEx
    /\ app_f = "seq.index"
    /\ app_args \in IdxSeqs \X IdxPats \X IdxInts
    /\ app_call = NoApp

MkSeqIndex ==
    /\ app_call.st = "none"
    /\ app_call' = mk_seq_index(app_args[1], app_args[2], app_args[3])
    /\ UNCHANGED <<eqVars, cfgVars, reVars, exVars, app_f, app_args>>

NextIndex == MkSeqIndex

SpecIndex == InitIndex /\ [][NextIndex]_vars

\* the assignments to the symbols of the arguments
AppEnvs ==
    {[cv |-> c, sv |-> s, iv |-> n] :
        c \in [{1} -> Alphabet], s \in [{1, 2} -> StringsUpTo(1)], n \in (0 - 1)..2}

RECURSIVE rat_parse(_, _)
rat_parse(s, acc) ==
    IF s = <<>> THEN acc
    ELSE LET low == acc.lo * 10 + (Head(s) - 48)
         IN rat_parse(Tail(s), [hi |-> acc.hi * 10 + (low \div Word), lo |-> low % Word])

\* rational::to_string of a non-negative integer
RECURSIVE rat_to_string(_)
rat_to_string(x) ==
    LET low == (x.hi % 10) * Word + x.lo
        digit == 48 + (low % 10)
        rest == [hi |-> x.hi \div 10, lo |-> low \div 10]
    IN IF rest = rational(0) THEN <<digit>> ELSE Append(rat_to_string(rest), digit)

\* numerals: the integers <<"int", hi, lo>> and the fractions <<"rat", n, d>>
is_any_numeral(e) == e[1] \in {"int", "rat"}
num_is_int(e) == e[1] = "int"
num_is_neg(e) == IF e[1] = "int" THEN rat_is_neg(numeral(e)) ELSE e[2] < 0

\* mk_str_itos that prints every integer, negative ones too
itos_prints_any(a) == num_is_int(a)

\* the numeral is printed: r.is_int() && !r.is_neg()
itos_prints(a) == num_is_int(a) /\ ~num_is_neg(a)

mk_str_itos(a) ==
    IF is_any_numeral(a)
    THEN IF itos_prints(a)
         THEN ARet("BR_DONE",
                   mk_string(IF num_is_neg(a)
                             THEN <<45>> \o rat_to_string(rat_neg(numeral(a)))
                             ELSE rat_to_string(numeral(a))))
         ELSE ARet("BR_DONE", mk_string(<<>>))
    ELSE ARet("BR_FAILED", null)

is_const_char(u) == u[1] = "c"

\* the identity stoi(head ++ unit) =
\*   ite(stoi(head) >= 0, 10 * stoi(head) + digit, ite(digit >= 0, digit, -1)),
\* used unless head is empty
stoi_concat_by_head(head, tail) ==
    LET stoi_head == mk_stoi(head)
    IN mk_ite(mk_is_empty(head), tail,
              mk_ite(mk_ge(stoi_head, mk_int(rational(0))),
                     mk_add(mk_mul(mk_int(rational(10)), stoi_head), tail),
                     mk_ite(mk_ge(tail, mk_int(rational(0))), tail, mk_int(rational(-1)))))

\* the term built for stoi(head ++ unit); tail is stoi(unit)
stoi_concat(head, tail) ==
    LET stoi_head == mk_stoi(head)
        accumulated ==
            mk_ite(mk_ge(stoi_head, mk_int(rational(0))),
                   mk_add(mk_mul(mk_int(rational(10)), stoi_head), tail),
                   mk_int(rational(-1)))
        guarded == mk_ite(mk_ge(tail, mk_int(rational(0))), accumulated, tail)
    IN mk_ite(mk_is_empty(head), tail, guarded)

mk_str_stoi(a) ==
    LET s1 == encode(a[2])
        as == get_concat_units(a)
        digit(ch) == 48 <= ch /\ ch <= 57
    IN
    IF is_string(a)
    THEN IF Len(s1) = 0 THEN ARet("BR_DONE", minus_one)
         ELSE IF \E i \in 1..Len(s1) : ~digit(s1[i]) THEN ARet("BR_DONE", minus_one)
         ELSE ARet("BR_DONE", mk_int(rat_parse(s1, rational(0))))
    ELSE IF is_itos(a)
    THEN ARet("BR_DONE", mk_ite(mk_ge(a[2], zero), a[2], minus_one))
    ELSE IF is_ite(a)
    THEN ARet("BR_REWRITE_FULL", mk_ite(a[2], mk_stoi(a[3]), mk_stoi(a[4])))
    ELSE IF is_unit(a) /\ is_const_char(a[2])
    THEN ARet("BR_DONE", IF digit(a[2][2]) THEN mk_int(rational(a[2][2] - 48))
                         ELSE mk_int(rational(-1)))
    ELSE IF as = <<>>
    THEN ARet("BR_DONE", mk_int(rational(-1)))
    ELSE IF is_unit(Last(as))
    THEN ARet("BR_REWRITE_FULL", stoi_concat(mk_concat(Front(as)), mk_stoi(Last(as))))
    ELSE ARet("BR_FAILED", null)

(***************************************************************************)
(* Specification SpecStoi: the rewriter meets (str.from_int n) or          *)
(* (str.to_int s).  It rewrites bottom-up: an argument (str.from_int n)    *)
(* of str.to_int is rewritten first; app_call then holds the status "arg"  *)
(* and the rewritten argument.                                             *)
(***************************************************************************)
MaxDigits == 3       \* length of the literals handed to str.to_int

\* '/', '0', '1', '9', ':' and a character that zstring::encode escapes
StoiAlphabet == {47, 48, 49, 57, 58, 7}

RECURSIVE StoiStrings(_)
StoiStrings(n) ==
    IF n = 0 THEN {<<>>}
    ELSE LET S == StoiStrings(n - 1)
         IN S \cup {Append(s, c) : s \in {t \in S : Len(t) = n - 1}, c \in StoiAlphabet}

ItosArgs ==
    {mk_int(v) : v \in ExNumerals \cup {rational(10), rational(907), rational(-10)}}
    \cup {<<"rat", 1, 2>>, <<"rat", -1, 2>>, <<"rat", 19, 2>>, <<"ivar", 1>>}

StoiArgs ==
    LET x == <<"var", 1>>
        u == mk_unit(CharVar)
    IN {mk_string(s) : s \in StoiStrings(MaxDigits)}
       \cup {mk_string(rat_to_string(v)) : v \in Around32}
       \cup {mk_itos(n) : n \in ItosArgs}
       \cup {mk_unit(<<"c", c>>) : c \in StoiAlphabet}
       \cup {mk_concat2(h, mk_unit(<<"c", c>>)) :
                h \in {mk_string(s) : s \in StoiStrings(MaxDigits - 1)} \cup {mk_empty, x},
                c \in StoiAlphabet}
       \cup { mk_empty, x, u, mk_concat2(x, u), mk_concat2(u, x),
              mk_concat2(mk_string(<<49>>), u), mk_concat2(u, mk_unit(<<"c", 48>>)),
              mk_ite(mk_eq(x, mk_empty), mk_string(<<49>>), x) }

InitStoi ==
    /\ IdleEq
    /\ IdleRe
    /\ IdleEx
    /\ \/ app_f = "itos" /\ app_args \in {<<n>> : n \in ItosArgs}
       \/ app_f = "str.to_int" /\ app_args \in {<<s>> : s \in StoiArgs}
    /\ app_call = NoApp

MkStrItos ==
    /\ app_f = "itos"
    /\ app_call.st = "none"
    /\ app_call' = mk_str_itos(app_args[1])
    /\ UNCHANGED <<eqVars, cfgVars, reVars, exVars, app_f, app_args>>

\* the argument (str.from_int n) of str.to_int is rewritten
MkItosArg ==
    /\ app_f = "str.to_int"
    /\ app_call.st = "none"
    /\ is_itos(app_args[1])
    /\ mk_str_itos(app_args[1][2]).st = "BR_DONE"
    /\ app_call' = ARet("arg", mk_str_itos(app_args[1][2]).result)
    /\ UNCHANGED <<eqVars, cfgVars, reVars, exVars, app_f, app_args>>

\* the argument of str.to_int as the rewriter sees it
StoiArg == IF app_call.st = "arg" THEN app_call.result ELSE app_args[1]

MkStrStoi ==
    /\ app_f = "str.to_int"
    /\ \/ app_call.st = "arg"
       \/ /\ app_call.st = "none"
          /\ ~(is_itos(app_args[1]) /\ mk_str_itos(app_args[1][2]).st = "BR_DONE")
    /\ app_call' = mk_str_stoi(StoiArg)
    /\ UNCHANGED <<eqVars, cfgVars, reVars, exVars, app_f, app_args>>

NextStoi == MkStrItos \/ MkItosArg \/ MkStrStoi

SpecStoi == InitStoi /\ [][NextStoi]_vars

\* the call on the application itself has returned
AppReturned == app_call.st \notin {"none", "arg"}

\* the decimal value of a string of digits
DecimalValue(s) == rat_parse(s, rational(0))

\* C12: str.to_int of a literal is -1 if the literal is empty or holds a
\* character outside '0'..'9' and its decimal value otherwise; str.from_int
\* of a numeral is its decimal literal if it is a non-negative integer and
\* the empty literal otherwise; str.to_int(str.from_int(n)) is rewritten to
\* n for an integer numeral n >= 0 and to -1 for n < 0
C12_StoiItosLiterals ==
    LET a == app_args[1]
    IN AppReturned =>
        /\ (app_f = "str.to_int" /\ is_string(a)) =>
              app_call = ARet("BR_DONE",
                              IF a[2] = <<>> \/ \E i \in 1..Len(a[2]) : ~IsDigit(a[2][i])
                              THEN minus_one ELSE mk_int(DecimalValue(a[2])))
        /\ (app_f = "itos" /\ is_any_numeral(a)) =>
              /\ app_call.st = "BR_DONE"
              /\ is_string(app_call.result)
              /\ IF num_is_int(a) /\ ~num_is_neg(a)
                 THEN /\ app_call.result[2] # <<>>
                      /\ \A i \in 1..Len(app_call.result[2]) : IsDigit(app_call.result[2][i])
                      /\ DecimalValue(app_call.result[2]) = numeral(a)
                      /\ (Len(app_call.result[2]) > 1 => app_call.result[2][1] # 48)
                 ELSE app_call.result[2] = <<>>
        /\ (app_f = "str.to_int" /\ is_itos(a) /\ is_numeral(a[2])) =>
              app_call = ARet("BR_DONE",
                              IF rat_is_neg(numeral(a[2])) THEN minus_one ELSE a[2])

\* str.to_int(str.from_int(907)) has been rewritten to 907 by way of the
\* literal "907"
C12_Witness ==
    /\ app_f = "str.to_int"
    /\ app_args = <<mk_itos(mk_int(rational(907)))>>
    /\ app_call = ARet("BR_DONE", mk_int(rational(907)))

\* the argument of str.to_int is a concatenation that ends in a unit and is
\* handled by the rule for concatenations
StoiOfConcat ==
    /\ app_f = "str.to_int"
    /\ app_call.st = "BR_REWRITE_FULL"
    /\ ~is_ite(app_args[1])

\* C13 as stated: the term built for stoi(head ++ unit) denotes the same
\* integer as ite(stoi(head) >= 0, 10 * stoi(head) + digit,
\* ite(digit >= 0, digit, -1)), taken when head is not empty
C13_StatedIdentity ==
    StoiOfConcat =>
        LET as == get_concat_units(app_args[1])
        IN \A env \in AppEnvs :
              Val(app_call.result, env)
                = Val(stoi_concat_by_head(mk_concat(Front(as)), mk_stoi(Last(as))), env)

\* C13: the term built for stoi(head ++ unit) is
\* ite(head = "", digit, ite(digit >= 0, ite(stoi(head) >= 0,
\* 10 * stoi(head) + digit, -1), digit)) with digit = stoi(unit), and under
\* every assignment it denotes the value of str.to_int on the whole string:
\* the decimal value if all characters are digits, -1 otherwise
C13_StoiConcatValue ==
    LET a == app_args[1]
        as == get_concat_units(a)
    IN /\ ( /\ app_f = "str.to_int" /\ AppReturned
            /\ is_concat(a) /\ as # <<>> /\ is_unit(Last(as)) ) =>
                /\ app_call.st = "BR_REWRITE_FULL"
                /\ is_ite(app_call.result)
                /\ app_call.result[2] = mk_is_empty(mk_concat(Front(as)))
                /\ app_call.result[3] = mk_stoi(Last(as))
       /\ StoiOfConcat =>
            \A env \in AppEnvs :
                Val(app_call.result, env) = rational(StoiValue(Val(a, env)))

\* str.to_int("19" ++ unit('0')) has been rewritten to a term that denotes 190
C13_Witness ==
    /\ StoiOfConcat
    /\ app_args = <<mk_concat2(mk_string(<<49, 57>>), mk_unit(<<"c", 48>>))>>
    /\ Val(app_call.result, CHOOSE env \in AppEnvs : TRUE) = rational(190)

(***************************************************************************)
(* Regex membership: (str.in_re a b) is rewritten by mk_str_in_regexp, one *)
(* head character per call, and the terms it returns are rewritten in      *)
(* turn.                                                                   *)
(***************************************************************************)
RECURSIVE get_head_tail_reversed(_)
get_head_tail_reversed(s) ==
    IF is_unit(s) THEN [ok |-> TRUE, head |-> mk_empty, tail |-> s[2]]
    ELSE IF is_string(s) /\ Len(s[2]) > 0
    THEN [ok |-> TRUE, head |-> mk_string(extract(s[2], 0, Len(s[2]) - 1)),
          tail |-> mk_char(s[2], Len(s[2]) - 1)]
    ELSE IF is_concat(s)
    THEN Force(get_head_tail_reversed(s[3]), LAMBDA ht :
            IF ht.ok THEN [ok |-> TRUE, head |-> mk_seq_concat(s[2], ht.head),
                           tail |-> ht.tail]
            ELSE [ok |-> FALSE, head |-> null, tail |-> null])
    ELSE [ok |-> FALSE, head |-> null, tail |-> null]

\* mk_str_in_regexp(a, b, result): [st, result, c], c the cache left behind
mk_str_in_regexp(a, b, c) ==
    IF b[1] = "re.empty" THEN DRet("BR_DONE", mk_false, c)
    ELSE IF b[1] = "re.all" THEN DRet("BR_DONE", mk_true, c)
    ELSE IF b[1] = "str.to_re" THEN DRet("BR_REWRITE1", mk_eq(a, b[2]), c)
    ELSE IF is_empty(a)
    THEN Force(is_nullable(b, c), LAMBDA n :
            IF n.r[1] = "str.in_re" THEN DRet("BR_DONE", n.r, n.c)
            ELSE DRet("BR_REWRITE_FULL", n.r, n.c))
    ELSE Force(get_head_tail(a), LAMBDA ht :
            IF ht.ok
            THEN DRet("BR_REWRITE2",
                      re_mk_in_re(ht.tail, re_mk_derivative(ht.head, b)), c)
            ELSE Force(get_head_tail_reversed(a), LAMBDA th :
                    IF th.ok
                    THEN DRet("BR_REWRITE_FULL",
                              re_mk_in_re(th.head,
                                  re_mk_reverse(re_mk_derivative(th.tail,
                                                                 re_mk_reverse(b)))), c)
                    ELSE DRet("BR_FAILED", null, c)))

\* m().is_value: a character or string constant, a unit of a character constant
is_value(e) == e[1] \in {"c", "str", "empty"} \/ (is_unit(e) /\ e[2][1] = "c")
value_of(e) ==
    IF e[1] = "empty" THEN <<>> ELSE IF is_unit(e) THEN <<e[2][2]>> ELSE e[2]

\* The rewriter on the boolean terms over constants that the membership test
\* leaves behind: connectives with a literal operand, and equalities and
\* orderings of constants, are folded.
RECURSIVE simplify(_)
simplify(t) ==
    IF t[1] = "not" THEN Force(simplify(t[2]), LAMBDA x : mk_not(x))
    ELSE IF t[1] = "and"
    THEN Force(simplify(t[2]), LAMBDA x : Force(simplify(t[3]), LAMBDA y :
            IF is_false(x) \/ is_false(y) THEN mk_false
            ELSE IF is_true(x) THEN y
            ELSE IF is_true(y) THEN x
            ELSE m_mk_and(x, y)))
    ELSE IF t[1] = "or"
    THEN Force(simplify(t[2]), LAMBDA x : Force(simplify(t[3]), LAMBDA y :
            IF is_true(x) \/ is_true(y) THEN mk_true
            ELSE IF is_false(x) THEN y
            ELSE IF is_false(y) THEN x
            ELSE mk_or(x, y)))
    ELSE IF t[1] = "ite"
    THEN Force(simplify(t[2]), LAMBDA x :
            IF is_true(x) THEN simplify(t[3])
            ELSE IF is_false(x) THEN simplify(t[4])
            ELSE mk_ite(x, simplify(t[3]), simplify(t[4])))
    ELSE IF t[1] = "=" /\ is_value(t[2]) /\ is_value(t[3])
    THEN IF value_of(t[2]) = value_of(t[3]) THEN mk_true ELSE mk_false
    ELSE IF t[1] = "char.<=" /\ t[2][1] = "c" /\ t[3][1] = "c"
    THEN IF t[2][2] <= t[3][2] THEN mk_true ELSE mk_false
    ELSE t

\* The same on a regex term: an if-then-else whose condition folds to a
\* literal is replaced by the branch it selects.
RECURSIVE simplify_re(_)
simplify_re(r) ==
    IF is_ite(r)
    THEN Force(simplify(r[2]), LAMBDA x :
            IF is_true(x) THEN simplify_re(r[3])
            ELSE IF is_false(x) THEN simplify_re(r[4])
            ELSE mk_ite(x, simplify_re(r[3]), simplify_re(r[4])))
    ELSE IF r[1] \in BinaryOps
    THEN Force(simplify_re(r[2]), LAMBDA x : Force(simplify_re(r[3]), LAMBDA y :
            <<r[1], x, y>>))
    ELSE IF r[1] \in UnaryOps THEN Force(simplify_re(r[2]), LAMBDA x : <<r[1], x>>)
    ELSE IF re_is_loop1(r) THEN Force(simplify_re(r[2]), LAMBDA x : re_mk_loop1(x, r[3]))
    ELSE IF re_is_loop2(r)
    THEN Force(simplify_re(r[2]), LAMBDA x : re_mk_loop2(x, r[3], r[4]))
    ELSE r

\* The rewriting driver on what mk_str_in_regexp returned: the derivative in
\* a new membership term is unfolded, a boolean term is folded.
rewrite_in_re(d) ==
    IF d.st \in {"BR_FAILED", "BR_DONE"} THEN [r |-> d.result, c |-> d.c]
    ELSE IF d.result[1] = "str.in_re"
    THEN Force(unfold(d.result[3], d.c), LAMBDA u :
            [r |-> re_mk_in_re(d.result[2], simplify_re(u.r)), c |-> u.c])
    ELSE [r |-> simplify(d.result), c |-> d.c]

(***************************************************************************)
(* Specification SpecInRe: the membership of a string literal in a regex   *)
(* is rewritten step by step.                                              *)
(***************************************************************************)
MaxInLen == 2        \* length of the string literal tested for membership

InLeaves ==
    { re_mk_empty, re_mk_full_seq, re_mk_full_char,
      re_mk_to_re(mk_empty),
      re_mk_to_re(mk_string(<<49>>)),
      re_mk_to_re(mk_string(<<45, 49>>)),
      re_mk_range(mk_string(<<45>>), mk_string(<<49>>)),
      re_mk_range(mk_string(<<49>>), mk_string(<<45>>)) }

InUnary == {"re.*", "re.+", "re.opt", "re.comp"}

InInner ==
    InLeaves
    \cup {<<op, x>> : op \in InUnary, x \in InLeaves}
    \cup {re_mk_loop1(x, lo) : x \in InLeaves, lo \in 0..MaxLoop}
    \cup {re_mk_loop2(x, lo, hi) : x \in InLeaves, lo \in 0..MaxLoop, hi \in 0..MaxLoop}

InOuter ==
    { re_mk_to_re(mk_string(<<49>>)), re_mk_full_char,
      re_mk_star(re_mk_full_char),
      re_mk_concat(re_mk_to_re(mk_string(<<49>>)), re_mk_star(re_mk_full_char)) }

\* the regexes tested: the operators that mk_re_derivative handles, over
\* constants
InRegexes ==
    InInner
    \cup {<<op, x, y>> : op \in BinaryOps, x \in InInner, y \in InOuter}
    \cup {<<op, y, x>> : op \in BinaryOps, x \in InInner, y \in InOuter}

InitInRe ==
    /\ IdleEq
    /\ IdleRe
    /\ IdleEx
    /\ app_f = "str.in_re"
    /\ app_args \in {mk_string(s) : s \in StringsUpTo(MaxInLen)} \X InRegexes
    /\ app_call = NoApp

\* the term the rewriter holds
InReTerm ==
    IF app_call.st = "none" THEN re_mk_in_re(app_args[1], app_args[2])
    ELSE app_call.result

\* the rewriter meets the membership term and rewrites what it returns
MkStrInRegexp ==
    /\ app_f = "str.in_re"
    /\ app_call.st \notin {"BR_FAILED", "BR_DONE"}
    /\ InReTerm[1] = "str.in_re"
    /\ \E d \in {mk_str_in_regexp(InReTerm[2], InReTerm[3], m_op_cache)} :
       \E u \in {rewrite_in_re(d)} :
          /\ app_call' = ARet(d.st, u.r)
          /\ m_op_cache' = u.c
    /\ UNCHANGED <<eqVars, cfgVars, exVars, re_r, re_b, re_ops, re_call, app_f, app_args>>

NextInRe == MkStrInRegexp

SpecInRe == InitInRe /\ [][NextInRe]_vars

\* every membership term is rewritten as long as a rule applies
SpecInReFair == SpecInRe /\ WF_vars(NextInRe)

\* the assignment of a term without symbols
GroundEnv ==
    [cv |-> [k \in {1} |-> 45], sv |-> [k \in {1} |-> <<>>], iv |-> 0,
     bv |-> [k \in 1..MaxCond |-> FALSE], pv |-> [k \in {1} |-> {}]]

InReDecided == InReTerm \in {mk_true, mk_false}

\* the rewriting of a membership term ends in a boolean literal
InReReachesLiteral == <>[]InReDecided

\* C15: the boolean literal that the rewriting of (s in r) ends in, s a
\* string literal, is true exactly when s is in the language of r
C15_MembershipDecided ==
    (app_f = "str.in_re" /\ InReDecided) =>
        (is_true(InReTerm) <=> Matches(app_args[2], app_args[1][2], GroundEnv))

\* the same with every bounded loop of r having lo <= hi
RECURSIVE LoopsOrdered(_)
LoopsOrdered(r) ==
    IF r[1] \in BinaryOps THEN LoopsOrdered(r[2]) /\ LoopsOrdered(r[3])
    ELSE IF r[1] \in UnaryOps THEN LoopsOrdered(r[2])
    ELSE IF re_is_loop1(r) THEN LoopsOrdered(r[2])
    ELSE IF re_is_loop2(r) THEN r[3] <= r[4] /\ LoopsOrdered(r[2])
    ELSE TRUE

InReDecidedOrdered ==
    (app_f = "str.in_re" /\ LoopsOrdered(app_args[2])) => C15_MembershipDecided

(***************************************************************************)
(* replace                                                                 *)
(***************************************************************************)
\* zstring::replace(src, dst): the first occurrence of src replaced by dst
zstring_replace(s, src, dst) == ReplaceFirst(s, src, dst)

\* a comparison that takes every position for a match
compare_at_i_always(lhs, rhs, i, j) == "l_true"

\* compare_at_i of mk_seq_replace, from the operand j of rhs on: is rhs a
\* prefix of lhs at position i?
RECURSIVE compare_at_i(_, _, _, _)
compare_at_i(lhs, rhs, i, j) ==
    IF ~(j < Len(rhs) /\ i + j < Len(lhs)) THEN "l_true"
    ELSE LET b0 == rhs[j + 1]
             a0 == lhs[i + j + 1]
         IN IF are_equal(a0, b0) THEN compare_at_i(lhs, rhs, i, j + 1)
            ELSE IF ~is_unit(b0) \/ ~is_unit(a0) THEN "l_undef"
            ELSE IF are_distinct(a0, b0) THEN "l_false"
            ELSE "l_undef"

\* the loop over the positions i of lhs: [i, cmp] where the loop is left,
\* cmp = "end" when lhs is exhausted
RECURSIVE replace_scan(_, _, _)
replace_scan(lhs, rhs, i) ==
    IF i >= Len(lhs) THEN [i |-> i, cmp |-> "end"]
    ELSE Force(compare_at_i(lhs, rhs, i, 0), LAMBDA cmp :
            IF cmp = "l_false" /\ is_unit(lhs[i + 1]) THEN replace_scan(lhs, rhs, i + 1)
            ELSE [i |-> i, cmp |-> cmp])

\* mk_seq_replace(a, b, c, result): [st, result]
mk_seq_replace(a, b, c) ==
    LET as == get_concat(a)
        lhs == get_concat_units(a)
        rhs == get_concat_units(b)
        n == Len(lhs)
    IN
    IF is_string(a) /\ is_string(b) /\ is_string(c)
    THEN ARet("BR_DONE", mk_string(zstring_replace(a[2], b[2], c[2])))
    ELSE IF b = c THEN ARet("BR_DONE", a)
    ELSE IF a = b THEN ARet("BR_DONE", c)
    ELSE IF is_empty(b) THEN ARet("BR_REWRITE1", mk_concat2(c, a))
    ELSE IF as = <<>>
    THEN IF min_length(get_concat(b)).len > 0 THEN ARet("BR_DONE", a)
         ELSE ARet("BR_FAILED", null)
    ELSE IF as[1] = b
    THEN ARet("BR_REWRITE1", mk_concat(<<c>> \o Tail(as)))
    ELSE IF is_string(b) /\ is_string(c) /\ is_string(as[1]) /\ Contains(as[1][2], b[2])
    THEN ARet("BR_REWRITE1",
              mk_concat(<<mk_string(zstring_replace(as[1][2], b[2], c[2]))>> \o Tail(as)))
    ELSE IF rhs = <<>> THEN ARet("BR_REWRITE1", mk_concat2(c, a))
    ELSE Force(replace_scan(lhs, rhs, 0), LAMBDA x :
            LET i == x.i
                a1 == mk_concat(SubSeq(lhs, 1, i))
                a2 == mk_concat(SubSeq(lhs, i + 1, n))
            IN IF x.cmp = "l_true" /\ n < i + Len(rhs)
               THEN ARet("BR_REWRITE_FULL", mk_ite(mk_eq(a2, b), mk_concat2(a1, c), a))
               ELSE IF x.cmp = "l_true"
               THEN ARet("BR_REWRITE_FULL",
                         mk_concat(SubSeq(lhs, 1, i) \o <<c>>
                                   \o SubSeq(lhs, i + Len(rhs) + 1, n)))
               ELSE IF i > 0
               THEN ARet("BR_REWRITE_FULL", mk_concat2(a1, mk_replace(a2, b, c)))
               ELSE ARet("BR_FAILED", null))

(***************************************************************************)
(* Specification SpecReplace: the rewriter meets (seq.replace s t r).      *)
(***************************************************************************)
RepSeqs ==
    LET x == <<"var", 1>>
        u == mk_unit(CharVar)
    IN IdxSeqs \cup { mk_concat2(mk_string(<<49, 45>>), u),
                      mk_concat2(mk_string(<<49>>), mk_concat2(x, mk_string(<<45>>))),
                      mk_concat2(x, mk_string(<<49, 45>>)),
                      mk_concat2(mk_string(<<45, 49>>), mk_concat2(u, x)) }

RepPats ==
    LET x == <<"var", 1>>
    IN IdxPats \cup { mk_concat2(x, mk_unit(<<"c", 45>>)),
                      mk_concat2(mk_string(<<49>>), x),
                      mk_concat2(mk_string(<<49, 45>>), x),
                      mk_concat2(mk_unit(<<"c", 49>>), mk_unit(CharVar)) }

RepNews == {mk_empty, mk_string(<<>>), mk_string(<<49>>), <<"var", 1>>, <<"var", 2>>,
            mk_unit(CharVar)}

InitReplace ==
    /\ IdleEq
    /\ IdleRe
    /\ IdleEx
    /\ app_f = "seq.replace"
    /\ app_args \in RepSeqs \X RepPats \X RepNews
    /\ app_call = NoApp

MkSeqReplace ==
    /\ app_f = "seq.replace"
    /\ app_call.st = "none"
    /\ app_call' = mk_seq_replace(app_args[1], app_args[2], app_args[3])
    /\ UNCHANGED <<eqVars, cfgVars, reVars, exVars, app_f, app_args>>

NextReplace == MkSeqReplace

SpecReplace == InitReplace /\ [][NextReplace]_vars

\* C16: every result of mk_seq_replace(s, t, r) denotes, under every
\* assignment, s with the first occurrence of t replaced by r
C16_ReplaceFirstOccurrence ==
    (app_f = "seq.replace" /\ app_call.st \notin {"none", "BR_FAILED"}) =>
        \A env \in AppEnvs :
            Val(app_call.result, env)
              = ReplaceFirst(Val(app_args[1], env), Val(app_args[2], env),
                             Val(app_args[3], env))

\* replace("-1" ++ unit(v) ++ x, unit('1') ++ unit(v), y) has been rewritten:
\* the mismatch at the unit '-' is skipped and y is put at the match
C16_Witness ==
    /\ app_args = << mk_concat2(mk_string(<<45, 49>>),
                                mk_concat2(mk_unit(CharVar), <<"var", 1>>)),
                     mk_concat2(mk_unit(<<"c", 49>>), mk_unit(CharVar)),
                     <<"var", 2>> >>
    /\ app_call = ARet("BR_REWRITE_FULL",
                       mk_concat(<<mk_unit(<<"c", 45>>), <<"var", 2>>, <<"var", 1>>>>))

(***************************************************************************)
(* contains                                                                *)
(***************************************************************************)
\* ::mk_and and ::mk_or of ast_util on a vector of terms
mk_and_n(es) ==
    IF es = <<>> THEN mk_true ELSE IF Len(es) = 1 THEN es[1] ELSE <<"and*", es>>
mk_or_n(es) ==
    IF es = <<>> THEN mk_false ELSE IF Len(es) = 1 THEN es[1] ELSE <<"or*", es>>

cannot_contain_suffix(a, b) ==
    IF is_unit(a) /\ is_unit(b) /\ are_distinct(a, b) THEN TRUE
    ELSE IF is_string(a) /\ is_string(b)
    THEN ~\E i \in 1..Len(a[2]) : IsSuffixOf(extract(a[2], 0, i), b[2])
    ELSE FALSE

cannot_contain_prefix(a, b) ==
    IF is_unit(a) /\ is_unit(b) /\ are_distinct(a, b) THEN TRUE
    ELSE IF is_string(a) /\ is_string(b)
    THEN ~\E i \in 0..(Len(a[2]) - 1) :
            IsSuffixOf(extract(a[2], i, Len(a[2]) - i), b[2])
    ELSE FALSE

\* the length test that takes the bound of a for exact in every case
contains_too_long_any(lA, lenA, lenB) == lenB > lenA

\* mk_seq_contains, lines 1138-1140: a is bounded and b is longer
contains_too_long(lA, lenA, lenB) == lA /\ lenB > lenA

\* mk_seq_contains(a, b, result): [st, result]
mk_seq_contains(a, b) ==
    LET as == get_concat_units(a)
        bs == get_concat_units(b)
        n == Len(as)
        sub_at(i) == \A j \in 1..Len(bs) : as[i + j] = bs[j]
        A == min_length(as)
        B == min_length(bs)
        offs == IF \E i \in 1..n : ~cannot_contain_prefix(as[i], bs[1])
                THEN (CHOOSE i \in 1..n :
                        /\ ~cannot_contain_prefix(as[i], bs[1])
                        /\ \A k \in 1..(i - 1) : cannot_contain_prefix(as[k], bs[1])) - 1
                ELSE n
        sz == IF \E i \in (offs + 1)..n : ~cannot_contain_suffix(as[i], bs[Len(bs)])
              THEN CHOOSE i \in (offs + 1)..n :
                        /\ ~cannot_contain_suffix(as[i], bs[Len(bs)])
                        /\ \A k \in (i + 1)..n : cannot_contain_suffix(as[k], bs[Len(bs)])
              ELSE offs
        all_units(es) == \A i \in 1..Len(es) : is_unit(es[i])
        all_values(es) == \A i \in 1..Len(es) : is_value(es[i])
    IN
    IF is_string(a) /\ is_string(b)
    THEN ARet("BR_DONE", IF Contains(a[2], b[2]) THEN mk_true ELSE mk_false)
    ELSE IF is_extract(b) /\ b[2] = a THEN ARet("BR_DONE", mk_true)
    ELSE IF bs = <<>> THEN ARet("BR_DONE", mk_true)
    ELSE IF as = <<>> THEN ARet("BR_REWRITE2", mk_is_empty(b))
    ELSE IF \E i \in 0..(n - Len(bs)) : sub_at(i) THEN ARet("BR_DONE", mk_true)
    ELSE IF all_values(bs) /\ all_values(as) THEN ARet("BR_DONE", mk_false)
    ELSE IF contains_too_long(A.bounded, A.len, B.len) THEN ARet("BR_DONE", mk_false)
    ELSE IF offs = sz THEN ARet("BR_REWRITE2", mk_is_empty(b))
    ELSE IF offs > 0 \/ sz < n
    THEN ARet("BR_REWRITE2", mk_contains(mk_concat(SubSeq(as, offs + 1, sz)), b))
    ELSE IF all_units(bs) /\ all_units(as)
    THEN ARet("BR_REWRITE_FULL",
              mk_or_n([i \in 1..(IF n >= Len(bs) THEN n - Len(bs) + 1 ELSE 0) |->
                        mk_and_n([j \in 1..Len(bs) |-> mk_eq(as[i - 1 + j], bs[j])])]))
    ELSE IF Len(bs) = 1 /\ all_units(bs) /\ n > 1
    THEN ARet("BR_REWRITE_FULL", mk_or_n([i \in 1..n |-> mk_contains(as[i], bs[1])]))
    ELSE ARet("BR_FAILED", null)

(***************************************************************************)
(* Specification SpecContains: the rewriter meets (seq.contains a b).      *)
(***************************************************************************)
ConArgs ==
    (RepSeqs \X RepPats)
    \cup {<<a, mk_substr(a, zero, one)>> : a \in {<<"var", 1>>, mk_string(<<49, 45>>)}}

InitContains ==
    /\ IdleEq
    /\ IdleRe
    /\ IdleEx
    /\ app_f = "seq.contains"
    /\ app_args \in ConArgs
    /\ app_call = NoApp

MkSeqContains ==
    /\ app_f = "seq.contains"
    /\ app_call.st = "none"
    /\ app_call' = mk_seq_contains(app_args[1], app_args[2])
    /\ UNCHANGED <<eqVars, cfgVars, reVars, exVars, app_f, app_args>>

NextContains == MkSeqContains

SpecContains == InitContains /\ [][NextContains]_vars

ContainsCalled == app_f = "seq.contains" /\ app_call.st # "none"

\* the length lower bounds of the two operand lists
ConLenA == min_length(get_concat_units(app_args[1]))
ConLenB == min_length(get_concat_units(app_args[2]))

\* C17 as stated: mk_seq_contains(a, b) returns false whenever the length
\* lower bound of b exceeds that of a, also when a has symbolic operands
C17_StatedEarlyFalse ==
    (ContainsCalled /\ ConLenB.len > ConLenA.len) => app_call = ARet("BR_DONE", mk_false)

\* C17: mk_seq_contains(a, b) returns false when a, not empty, has only
\* units and literals for operands and the length lower bound of b exceeds
\* the length of a; and whenever it returns false, b does not occur in a
\* under any assignment
C17_EarlyFalseWhenBounded ==
    ContainsCalled =>
        /\ (get_concat_units(app_args[1]) # <<>> /\ ConLenA.bounded
                /\ ConLenB.len > ConLenA.len)
              => app_call = ARet("BR_DONE", mk_false)
        /\ is_false(app_call.result) =>
              \A env \in AppEnvs :
                  ~Contains(Val(app_args[1], env), Val(app_args[2], env))

\* contains(unit(v), "-" ++ unit(v)) has been rewritten to false by the
\* length test: the operands are not all constants
C17_Witness ==
    /\ app_args = <<mk_unit(CharVar), mk_concat2(mk_unit(<<"c", 45>>), mk_unit(CharVar))>>
    /\ app_call = ARet("BR_DONE", mk_false)

(***************************************************************************)
(* prefix and suffix                                                       *)
(***************************************************************************)
RECURSIVE get_leftmost_concat(_)
get_leftmost_concat(e) == IF is_concat(e) THEN get_leftmost_concat(e[2]) ELSE e

\* a comparison that takes two different units for distinct
align_hasty(ai, bi) ==
    IF are_equal(ai, bi) THEN "equal" ELSE "distinct"

\* the comparison of an aligned pair of operands in mk_seq_prefix and
\* mk_seq_suffix: "equal" (continue), "distinct" (false), "eq" (an equality
\* is collected) or "stop" (break)
align(ai, bi) ==
    IF are_equal(ai, bi) THEN "equal"
    ELSE IF are_distinct(ai, bi) THEN "distinct"
    ELSE IF is_unit(ai) /\ is_unit(bi) THEN "eq"
    ELSE "stop"

\* the loop over the aligned pairs, as[i] against bs[i] for i = 1, 2, ...:
\* [i, eqs, distinct], i the number of pairs passed
RECURSIVE align_loop(_, _, _, _)
align_loop(as, bs, i, eqs) ==
    IF ~(i < Len(as) /\ i < Len(bs)) THEN [i |-> i, eqs |-> eqs, distinct |-> FALSE]
    ELSE Force(align(as[i + 1], bs[i + 1]), LAMBDA r :
            IF r = "equal" THEN align_loop(as, bs, i + 1, eqs)
            ELSE IF r = "distinct" THEN [i |-> i, eqs |-> eqs, distinct |-> TRUE]
            ELSE IF r = "eq"
            THEN align_loop(as, bs, i + 1, Append(eqs, mk_eq(as[i + 1], bs[i + 1])))
            ELSE [i |-> i, eqs |-> eqs, distinct |-> FALSE])

\* mk_seq_prefix(a, b, result): [st, result]
mk_seq_prefix(a, b) ==
    LET a1 == get_leftmost_concat(a)
        b1 == get_leftmost_concat(b)
        s1 == a1[2]
        s2 == b1[2]
        as0 == get_concat(a)
        bs0 == get_concat(b)
        as == get_concat_units(a)
        bs == get_concat_units(b)
    IN
    IF is_string(a) /\ is_string(b)
    THEN ARet("BR_DONE", IF IsPrefixOf(a[2], b[2]) THEN mk_true ELSE mk_false)
    ELSE IF is_empty(a) THEN ARet("BR_DONE", mk_true)
    ELSE IF a1 # b1 /\ is_string(a1) /\ is_string(b1)
    THEN IF Len(s1) <= Len(s2)
         THEN IF IsPrefixOf(s1, s2)
              THEN IF a = a1 THEN ARet("BR_DONE", mk_true)
                   ELSE ARet("BR_REWRITE_FULL",
                             mk_prefix(mk_concat(Tail(as0)),
                                       mk_concat(<<mk_string(extract(s2, Len(s1),
                                                        Len(s2) - Len(s1)))>>
                                                 \o Tail(bs0))))
              ELSE ARet("BR_DONE", mk_false)
         ELSE IF IsPrefixOf(s2, s1)
              THEN IF b = b1 THEN ARet("BR_DONE", mk_false)
                   ELSE ARet("BR_REWRITE_FULL",
                             mk_prefix(mk_concat(<<mk_string(extract(s1, Len(s2),
                                                        Len(s1) - Len(s2)))>>
                                                 \o Tail(as0)),
                                       mk_concat(Tail(bs0))))
              ELSE ARet("BR_DONE", mk_false)
    ELSE Force(align_loop(as, bs, 0, <<>>), LAMBDA x :
            IF x.distinct THEN ARet("BR_DONE", mk_false)
            ELSE IF x.i = Len(as) THEN ARet("BR_REWRITE3", mk_and_n(x.eqs))
            ELSE IF x.i = Len(bs)
            THEN ARet("BR_REWRITE3",
                      mk_and_n(x.eqs \o [j \in 1..(Len(as) - x.i) |->
                                            mk_is_empty(as[x.i + j])]))
            ELSE IF x.i > 0
            THEN ARet("BR_REWRITE3",
                      mk_and_n(Append(x.eqs,
                          mk_prefix(mk_concat(SubSeq(as, x.i + 1, Len(as))),
                                    mk_concat(SubSeq(bs, x.i + 1, Len(bs)))))))
            ELSE ARet("BR_FAILED", null))

\* mk_seq_suffix(a, b, result): [st, result]; the operands are aligned from
\* the end
mk_seq_suffix(a, b) ==
    LET as == get_concat_units(a)
        bs == get_concat_units(b)
        sza == Len(as)
        szb == Len(bs)
    IN
    IF a = b THEN ARet("BR_DONE", mk_true)
    ELSE IF is_empty(a) THEN ARet("BR_DONE", mk_true)
    ELSE IF is_empty(b) THEN ARet("BR_REWRITE3", mk_is_empty(a))
    ELSE Force(align_loop(Reverse(as), Reverse(bs), 0, <<>>), LAMBDA x :
            IF x.distinct THEN ARet("BR_DONE", mk_false)
            ELSE IF x.i = sza THEN ARet("BR_REWRITE3", mk_and_n(x.eqs))
            ELSE IF x.i = szb
            THEN ARet("BR_REWRITE3",
                      mk_and_n(x.eqs \o [j \in 1..(sza - x.i) |->
                                            mk_is_empty(as[sza - x.i - j + 1])]))
            ELSE IF x.i > 0
            THEN ARet("BR_REWRITE3",
                      mk_and_n(Append(x.eqs,
                          mk_suffix(mk_concat(SubSeq(as, 1, sza - x.i)),
                                    mk_concat(SubSeq(bs, 1, szb - x.i))))))
            ELSE ARet("BR_FAILED", null))

(***************************************************************************)
(* Specification SpecPrefix: the rewriter meets (seq.prefix a b) or        *)
(* (seq.suffix a b); the arguments are terms it has rewritten before.      *)
(***************************************************************************)
PreSeqs ==
    LET x == <<"var", 1>>
        y == <<"var", 2>>
        u == mk_unit(CharVar)
    IN RepSeqs \cup RepPats
       \cup { mk_concat2(mk_string(<<49>>), y), mk_concat2(x, mk_string(<<49>>)),
              mk_concat2(x, u), mk_concat2(y, mk_concat2(u, mk_string(<<45>>))),
              mk_concat2(mk_string(<<49, 45, 49>>), x) }

InitPrefix ==
    /\ IdleEq
    /\ IdleRe
    /\ IdleEx
    /\ app_f \in {"seq.prefix", "seq.suffix"}
    /\ app_args \in PreSeqs \X PreSeqs
    /\ app_call = NoApp

MkSeqPrefix ==
    /\ app_f = "seq.prefix"
    /\ app_call.st = "none"
    /\ app_call' = mk_seq_prefix(app_args[1], app_args[2])
    /\ UNCHANGED <<eqVars, cfgVars, reVars, exVars, app_f, app_args>>

MkSeqSuffix ==
    /\ app_f = "seq.suffix"
    /\ app_call.st = "none"
    /\ app_call' = mk_seq_suffix(app_args[1], app_args[2])
    /\ UNCHANGED <<eqVars, cfgVars, reVars, exVars, app_f, app_args>>

NextPrefix == MkSeqPrefix \/ MkSeqSuffix

SpecPrefix == InitPrefix /\ [][NextPrefix]_vars

\* C18: every result of mk_seq_prefix(a, b) and of mk_seq_suffix(a, b) is
\* true, under every assignment, exactly when a is a prefix (suffix) of b
C18_PrefixSuffixEquivalent ==
    (app_f \in {"seq.prefix", "seq.suffix"} /\ app_call.st \notin {"none", "BR_FAILED"}) =>
        \A env \in AppEnvs :
            Val(app_call.result, env)
              = IF app_f = "seq.prefix"
                THEN IsPrefixOf(Val(app_args[1], env), Val(app_args[2], env))
                ELSE IsSuffixOf(Val(app_args[1], env), Val(app_args[2], env))

\* suffix(x ++ unit(v), y ++ unit(v) ++ "-") has been rewritten: the units
\* at the end give (v = '-') and the rest is suffix(x, y ++ unit(v))
C18_Witness ==
    /\ app_f = "seq.suffix"
    /\ app_args = << mk_concat2(<<"var", 1>>, mk_unit(CharVar)),
                     mk_concat2(<<"var", 2>>,
                                mk_concat2(mk_unit(CharVar), mk_string(<<45>>))) >>
    /\ app_call = ARet("BR_REWRITE3",
                       <<"and*", << mk_eq(mk_unit(CharVar), mk_unit(<<"c", 45>>)),
                                    mk_suffix(<<"var", 1>>,
                                              mk_concat2(<<"var", 2>>, mk_unit(CharVar))) >> >>)

(***************************************************************************)
(* The dispatcher.  An application is the operator f, named by the tag of  *)
(* its terms, with the argument list args; the term is <<f>> \o args.      *)
(***************************************************************************)
\* mk_seq_unit(e, result): [st, result]
mk_seq_unit(e) ==
    IF is_const_char(e) /\ m_coalesce_chars THEN ARet("BR_DONE", mk_string(<<e[2]>>))
    ELSE ARet("BR_FAILED", null)

\* a simplifier that only re-associates
mk_seq_concat_assoc(a, b) ==
    IF is_concat(a) THEN ARet("BR_REWRITE2", mk_concat2(a[2], mk_concat2(a[3], b)))
    ELSE ARet("BR_FAILED", null)

\* mk_seq_concat(a, b, result): [st, result]
mk_seq_concat_br(a, b) ==
    LET isc1 == is_string(a) /\ m_coalesce_chars
        isc2 == is_string(b) /\ m_coalesce_chars
    IN IF isc1 /\ isc2 THEN ARet("BR_DONE", mk_string(a[2] \o b[2]))
       ELSE IF is_concat(a)
       THEN ARet("BR_REWRITE2", mk_concat2(a[2], mk_concat2(a[3], b)))
       ELSE IF is_empty(a) THEN ARet("BR_DONE", b)
       ELSE IF is_empty(b) THEN ARet("BR_DONE", a)
       ELSE IF isc1 /\ is_concat(b) /\ is_string(b[2])
       THEN ARet("BR_DONE", mk_concat2(mk_string(a[2] \o b[2][2]), b[3]))
       ELSE ARet("BR_FAILED", null)

\* mk_str_units(f, result): the literal as a concatenation of units
mk_str_units(s) ==
    ARet("BR_DONE", mk_concat([j \in 1..Len(s) |-> mk_unit(mk_char(s, j - 1))]))

mk_re_diff(a, b) == ARet("BR_REWRITE2", re_mk_inter(a, re_mk_complement(b)))

mk_str_to_regexp(a) == ARet("BR_FAILED", null)

\* the operators for which mk_app_core returns BR_FAILED at once
LeafOps == {"empty", "re.empty", "re.all", "re.allchar", "re.of_pred", "skolem"}

\* the operators of the sequence theory whose simplifier is modelled
AppOps ==
    LeafOps \cup {"unit", "str", "seq.++", "re.++", "re.union", "re.inter", "re.diff",
                  "seq.extract", "seq.contains", "seq.prefix", "seq.suffix", "seq.index",
                  "seq.replace", "str.to_re", "str.in_re", "itos", "str.to_int",
                  "re.derivative"}

\* the other operators of the sequence theory
OtherSeqOps == {"re.*", "re.+", "re.opt", "re.comp", "re.loop", "re.range", "re.reverse",
                "seq.len"}

\* mk_app_core(f, num_args, args, result): [st, result, c], c the cache left
\* behind
mk_app_core(f, args, c) ==
    LET ret(r) == DRet(r.st, r.result, c)
        n == Len(args)
    IN
    IF f = "unit" THEN ret(mk_seq_unit(args[1]))
    ELSE IF f \in LeafOps THEN DRet("BR_FAILED", null, c)
    ELSE IF f \in {"re.++", "re.union", "re.inter", "seq.++", "re.diff"} /\ n = 1
    THEN DRet("BR_DONE", args[1], c)
    ELSE IF f = "re.diff" THEN ret(mk_re_diff(args[1], args[2]))
    ELSE IF f = "seq.++" THEN ret(mk_seq_concat_br(args[1], args[2]))
    ELSE IF f = "seq.extract"
    THEN Force(mk_seq_extract(args[1], args[2], args[3]), LAMBDA r :
            ret(ARet(r.st, r.result)))
    ELSE IF f = "seq.contains" THEN ret(mk_seq_contains(args[1], args[2]))
    ELSE IF f = "seq.prefix" THEN ret(mk_seq_prefix(args[1], args[2]))
    ELSE IF f = "seq.suffix" THEN ret(mk_seq_suffix(args[1], args[2]))
    ELSE IF f = "seq.index" /\ n = 2
    THEN DRet("BR_REWRITE1", mk_index(args[1], args[2], zero), c)
    ELSE IF f = "seq.index" THEN ret(mk_seq_index(args[1], args[2], args[3]))
    ELSE IF f = "seq.replace" THEN ret(mk_seq_replace(args[1], args[2], args[3]))
    ELSE IF f = "str.to_re" THEN ret(mk_str_to_regexp(args[1]))
    ELSE IF f = "str.in_re" THEN mk_str_in_regexp(args[1], args[2], c)
    ELSE IF f = "str"
    THEN IF ~m_coalesce_chars THEN ret(mk_str_units(args[1]))
         ELSE DRet("BR_FAILED", null, c)
    ELSE IF f = "itos" THEN ret(mk_str_itos(args[1]))
    ELSE IF f = "str.to_int" THEN ret(mk_str_stoi(args[1]))
    ELSE IF f = "re.derivative" THEN mk_re_derivative(args[1], args[2], c)
    ELSE DRet("unmodelled", null, c)

\* the sub-terms of a term
subterms(t) ==
    IF t[1] \in {"str", "c", "v", "var", "int", "ivar", "rat", "b", "p", "true", "false",
                 "re.loop"} \cup LeafOps
    THEN <<>>
    ELSE IF t[1] \in {"+", "*", "and*", "or*"} THEN t[2]
    ELSE Tail(t)

\* a term in normal form: the dispatcher returns BR_FAILED for it and for
\* every sub-term of it that is an application of the sequence theory
RECURSIVE is_normal(_)
is_normal(t) ==
    /\ t[1] \in AppOps \cup OtherSeqOps => mk_app_core(t[1], Tail(t), {}).st = "BR_FAILED"
    /\ \A i \in 1..Len(subterms(t)) : is_normal(subterms(t)[i])

(***************************************************************************)
(* Specification SpecApp: the rewriter hands an application whose          *)
(* arguments are in normal form to mk_app_core and, when the status is     *)
(* BR_DONE, the result is dispatched once more.                            *)
(***************************************************************************)
MaxAppInt == 2       \* largest numeral argument of an application

AppInts == {mk_int(rational(v)) : v \in (0 - 1)..MaxAppInt}

AppRegexes ==
    { re_mk_empty, re_mk_full_seq, re_mk_full_char, re_mk_of_pred(PredVar),
      re_mk_to_re(mk_string(<<49>>)), re_mk_to_re(<<"var", 1>>) }

\* the applications handed to the dispatcher, before the arguments that are
\* not in normal form are left out
AppCalls ==
    LET seq1 == {<<"var", 1>>}
    IN {<<f, <<>>>> : f \in LeafOps \ {"re.of_pred"}}
       \cup {<<"re.of_pred", <<PredVar>>>>}
       \cup {<<"str", <<s>>>> : s \in StringsUpTo(MaxLitLen)}
       \cup {<<"unit", <<ch>>>> : ch \in Chars}
       \cup {<<"seq.++", <<a>>>> : a \in seq1}
       \cup {<<f, <<r>>>> : f \in {"re.++", "re.union", "re.inter", "re.diff"},
                            r \in {re_mk_full_char}}
       \cup {<<"re.diff", <<a, b>>>> : a \in AppRegexes, b \in {re_mk_full_char}}
       \cup {<<"seq.++", <<a, b>>>> : a \in IdxPats, b \in IdxPats}
       \cup {<<"seq.extract", <<a, b, c>>>> : a \in IdxSeqs, b \in AppInts, c \in AppInts}
       \cup {<<f, <<a, b>>>> : f \in {"seq.contains", "seq.prefix", "seq.suffix", "seq.index"},
                               a \in IdxSeqs, b \in IdxPats}
       \cup {<<"seq.index", <<a, b, c>>>> : a \in IdxSeqs, b \in IdxPats, c \in AppInts}
       \cup {<<"seq.replace", <<a, b, c>>>> : a \in IdxSeqs, b \in IdxPats, c \in RepNews}
       \cup {<<"str.to_re", <<a>>>> : a \in IdxPats}
       \cup {<<"str.in_re", <<a, r>>>> : a \in IdxPats, r \in AppRegexes}
       \cup {<<"itos", <<a>>>> : a \in ItosArgs}
       \cup {<<"str.to_int", <<a>>>> : a \in StoiArgs}
       \cup {<<"re.derivative", <<ch, r>>>> : ch \in Chars, r \in AppRegexes}

AppRet(st, result, first) == [st |-> st, result |-> result, first |-> first]

InitApp ==
    /\ IdleEq
    /\ IdleEx
    /\ m_op_cache = {}
    /\ find_stores = TRUE
    /\ arg_order = "ltr"
    /\ m_coalesce_chars \in BOOLEAN
    /\ m_sa = FALSE
    /\ re_r = re_mk_empty
    /\ re_b = re_mk_empty
    /\ re_ops = 0
    /\ re_call = NoCall
    /\ \E call \in AppCalls :
          /\ \A i \in 1..Len(call[2]) : call[1] # "str" => is_normal(call[2][i])
          /\ app_f = call[1]
          /\ app_args = call[2]
    /\ app_call = AppRet("none", null, null)

\* the rewriter meets the application f(args)
MkAppCore ==
    /\ app_call.st = "none"
    /\ \E r \in {mk_app_core(app_f, app_args, m_op_cache)} :
          /\ app_call' = AppRet(r.st, r.result, null)
          /\ m_op_cache' = r.c
    /\ UNCHANGED <<eqVars, cfgVars, exVars, re_r, re_b, re_ops, re_call, app_f, app_args>>

\* the result of a BR_DONE is an application of the sequence theory, and
\* its operator is dispatched on its own arguments
MkAppCoreAgain ==
    /\ app_call.st = "BR_DONE"
    /\ app_call.first = null
    /\ app_call.result[1] \in AppOps \cup OtherSeqOps
    /\ \E r \in {mk_app_core(app_call.result[1], Tail(app_call.result), m_op_cache)} :
          /\ app_call' = AppRet(r.st, r.result, <<app_f, app_args>>)
          /\ m_op_cache' = r.c
    /\ app_f' = app_call.result[1]
    /\ app_args' = Tail(app_call.result)
    /\ UNCHANGED <<eqVars, cfgVars, exVars, re_r, re_b, re_ops, re_call>>

NextApp == MkAppCore \/ MkAppCoreAgain

SpecApp == InitApp /\ [][NextApp]_vars

\* C14: the operator of the result of a BR_DONE, dispatched on its own
\* arguments, gets BR_FAILED; and the dispatcher returns BR_FAILED without
\* a result for the leaf operators
C14_DispatcherIdempotent ==
    /\ app_call.first # null => app_call.st = "BR_FAILED"
    /\ (app_call.st # "none" /\ app_f \in LeafOps) =>
          (app_call.st = "BR_FAILED" /\ app_call.result = null)

(***************************************************************************)
(* re2automaton: compilation of a regex to an automaton.  An eautomaton is *)
(* represented by the words of at most MaxWord characters that it accepts, *)
(* <<"aut", L>>; the null pointer is the term null.                        *)
(***************************************************************************)
AutWords == StringsUpTo(MaxWord)
mk_aut(L) == <<"aut", L>>

\* eautomaton::mk_epsilon(sm)
aut_mk_epsilon == mk_aut({<<>>})

\* alloc(eautomaton, sm): no final state
aut_mk_none == mk_aut({})

\* alloc(eautomaton, sm, t): one move from the initial to the final state,
\* open for the characters cs
aut_mk_move(cs) == mk_aut({<<ch>> : ch \in cs} \cap AutWords)

\* eautomaton::mk_concat(a, b)
aut_mk_concat(a, b) == mk_aut({u \o v : u \in a[2], v \in b[2]} \cap AutWords)

\* eautomaton::mk_union(a, b)
aut_mk_union(a, b) == mk_aut(a[2] \cup b[2])

RECURSIVE iterate_moves(_, _, _)
iterate_moves(L, acc, n) ==
    IF n = 0 THEN acc
    ELSE iterate_moves(L, acc \cup ({u \o v : u \in acc, v \in L} \cap AutWords), n - 1)

\* a->add_final_to_init_moves(): from a final state the automaton starts again
add_final_to_init_moves(a) == mk_aut(iterate_moves(a[2], a[2], MaxWord))

\* a->add_init_to_final_states(): the initial state accepts; mk_opt has the
\* same language
add_init_to_final_states(a) == mk_aut(a[2] \cup {<<>>})

\* m_sa->mk_complement(a)
aut_mk_complement(a) == mk_aut(AutWords \ a[2])

\* m_sa->mk_product(a, b)
aut_mk_product(a, b) == mk_aut(a[2] \cap b[2])

\* is_unit_char(e, ch): a string of one character or a unit
is_unit_char(e) == (is_string(e) /\ Len(e[2]) = 1) \/ is_unit(e)

\* the character code ch of is_unit_char; the units of the model hold
\* character constants
unit_char(e) == IF is_string(e) THEN e[2][1] ELSE e[2][2]

\* seq2aut(e): automaton of a sequence term, null when it is not made of
\* units, literals and concatenations
RECURSIVE seq2aut(_)
seq2aut(e) ==
    IF is_concat(e)
    THEN LET a == seq2aut(e[2])
         IN IF a = null THEN null
            ELSE LET b == seq2aut(e[3])
                 IN IF b = null THEN null ELSE aut_mk_concat(a, b)
    ELSE IF is_unit(e) THEN aut_mk_move({e[2][2]})
    ELSE IF e[1] = "empty" THEN aut_mk_epsilon
    ELSE IF is_string(e) THEN mk_aut({e[2]} \cap AutWords)
    ELSE null

\* the test "&& m_sa" of the complement and intersection cases
has_solver_always(sa) == TRUE
has_solver(sa) == sa

\* while (hi > lo) { c = concat(a, b); b = union(eps, c); --hi; }
RECURSIVE loop_optional(_, _, _, _)
loop_optional(a, b, lo, hi) ==
    IF hi > lo
    THEN loop_optional(a, aut_mk_union(aut_mk_epsilon, aut_mk_concat(a, b)), lo, hi - 1)
    ELSE b

\* while (lo > 0) { b = concat(a, b); --lo; }
RECURSIVE loop_required(_, _, _)
loop_required(a, b, lo) ==
    IF lo > 0 THEN loop_required(a, aut_mk_concat(a, b), lo - 1) ELSE b

\* re2aut(e) with m_sa set (sa) or null
RECURSIVE re2aut(_, _)
re2aut(e, sa) ==
    LET k == e[1]
        a == re2aut(e[2], sa)
        b == re2aut(e[3], sa)
    IN CASE k = "str.to_re" -> seq2aut(e[2])
         [] k = "re.++" ->
                IF a # null /\ b # null THEN aut_mk_concat(a, b) ELSE null
         [] k = "re.union" ->
                IF a # null /\ b # null THEN aut_mk_union(a, b) ELSE null
         [] k = "re.*" ->
                IF a # null THEN add_init_to_final_states(add_final_to_init_moves(a))
                ELSE null
         [] k = "re.+" ->
                IF a # null THEN add_final_to_init_moves(a) ELSE null
         [] k = "re.opt" ->
                IF a # null THEN add_init_to_final_states(a) ELSE null
         [] k = "re.range" ->
                IF is_unit_char(e[2]) /\ is_unit_char(e[3])
                THEN aut_mk_move({ch \in Alphabet :
                                    unit_char(e[2]) <= ch /\ ch <= unit_char(e[3])})
                ELSE aut_mk_none
         [] k = "re.comp" ->
                IF a # null /\ has_solver(sa) THEN aut_mk_complement(a) ELSE null
         [] re_is_loop2(e) ->
                IF a # null
                THEN loop_required(a, loop_optional(a, aut_mk_epsilon, e[3], e[4]), e[3])
                ELSE null
         [] re_is_loop1(e) ->
                IF a # null
                THEN loop_required(a,
                        add_init_to_final_states(add_final_to_init_moves(a)), e[3])
                ELSE null
         [] k = "re.empty" -> aut_mk_none
         [] k = "re.all" -> add_init_to_final_states(
                                add_final_to_init_moves(aut_mk_move(Alphabet)))
         [] k = "re.allchar" -> aut_mk_move(Alphabet)
         [] k = "re.inter" ->
                IF has_solver(sa) /\ a # null /\ b # null
                THEN aut_mk_product(a, b) ELSE null
         [] OTHER -> null

(***************************************************************************)
(* Specification SpecAut: a regex is compiled by re2automaton, before or   *)
(* after set_solver is called.                                             *)
(***************************************************************************)
AutExtra ==
    LET x == <<"var", 1>>
    IN { re_mk_to_re(x),
         re_mk_to_re(mk_concat2(mk_string(<<49>>), x)),
         re_mk_to_re(mk_concat2(mk_unit(<<"c", 45>>), mk_string(<<49>>))),
         re_mk_reverse(re_mk_full_char),
         re_mk_range(x, mk_string(<<49>>)),
         re_mk_range(mk_unit(<<"c", 45>>), mk_string(<<49>>)) }

AutNested ==
    {<<bop, x, y>> : bop \in BinaryOps, x \in InOuter, y \in InOuter \cup AutExtra}

AutRegexes ==
    InRegexes
    \cup AutExtra
    \cup {<<op, x>> : op \in InUnary, x \in AutExtra \cup AutNested}
    \cup {re_mk_loop2(re_mk_complement(x), lo, hi) :
            x \in InOuter, lo \in 0..1, hi \in 1..MaxLoop}
    \cup {re_mk_concat(re_mk_star(y), x) : x \in InOuter, y \in AutNested}

InitAut ==
    /\ IdleEq
    /\ IdleEx
    /\ m_op_cache = {}
    /\ find_stores = TRUE
    /\ arg_order = "ltr"
    /\ m_coalesce_chars = TRUE
    /\ m_sa = FALSE
    /\ re_r = re_mk_empty
    /\ re_b = re_mk_empty
    /\ re_ops = 0
    /\ re_call = NoCall
    /\ app_f = "re2aut"
    /\ \E r \in AutRegexes : app_args = <<r>>
    /\ app_call = NoApp

\* re2automaton::set_solver(solver)
SetSolver ==
    /\ app_f = "re2aut"
    /\ ~m_sa
    /\ m_sa' = TRUE
    /\ UNCHANGED <<find_stores, arg_order, m_coalesce_chars>>
    /\ UNCHANGED <<eqVars, reVars, exVars, appVars>>

\* re2automaton::operator()(e); compress() keeps the language
Re2Aut ==
    /\ app_f = "re2aut"
    /\ app_call' = ARet("done", re2aut(app_args[1], m_sa))
    /\ UNCHANGED <<app_f, app_args>>
    /\ UNCHANGED <<eqVars, cfgVars, reVars, exVars>>

NextAut == SetSolver \/ Re2Aut

SpecAut == InitAut /\ [][NextAut]_vars

\* the regex sub-terms of a regex, itself included
RECURSIVE re_subterms(_)
re_subterms(r) ==
    {r} \cup
    CASE r[1] \in {"re.++", "re.union", "re.inter", "re.diff"} ->
            re_subterms(r[2]) \cup re_subterms(r[3])
      [] r[1] \in {"re.*", "re.+", "re.opt", "re.comp", "re.loop", "re.reverse"} ->
            re_subterms(r[2])
      [] OTHER -> {}

\* a sequence made of units, literals and concatenations
RECURSIVE is_literal_seq(_)
is_literal_seq(s) ==
    IF is_concat(s) THEN is_literal_seq(s[2]) /\ is_literal_seq(s[3])
    ELSE is_unit(s) \/ is_string(s) \/ s[1] = "empty"

\* a complement or an intersection occurs in r
NeedsSolver(r) == \E t \in re_subterms(r) : t[1] \in {"re.comp", "re.inter"}

\* a sub-term of r is outside the operators that re2aut compiles
Unsupported(r) ==
    \E t \in re_subterms(r) :
        \/ t[1] \in {"re.diff", "re.reverse", "re.of_pred", "re.derivative", "ite"}
        \/ t[1] = "str.to_re" /\ ~is_literal_seq(t[2])

AutCompiled == app_f = "re2aut" /\ app_call.st = "done"

\* C19: while set_solver has not been called, the compilation of a regex
\* returns the null automaton exactly when the regex contains a complement,
\* an intersection or another unsupported sub-term, wherever it occurs, and
\* an automaton otherwise.
C19_NoSolverAllOrNothing ==
    (AutCompiled /\ ~m_sa) =>
        LET r == app_args[1]
            res == app_call.result
        IN /\ NeedsSolver(r) => res = null
           /\ (res = null) <=> (NeedsSolver(r) \/ Unsupported(r))
           /\ res # null => res[1] = "aut"

\* a complement below a concatenation makes the whole compilation fail
C19_Witness ==
    /\ AutCompiled /\ ~m_sa
    /\ app_args[1][1] = "re.++"
    /\ app_args[1][2][1] = "re.comp"
    /\ re2aut(app_args[1][2][2], FALSE) # null
    /\ re2aut(app_args[1][3], FALSE) # null
    /\ app_call.result = null

(***************************************************************************)
(* Specification SpecTable: insert and find are called on the operation    *)
(* cache in any order.  app_call is the last call with, as history, the    *)
(* entries inserted since the table last lost an entry under another key.  *)
(***************************************************************************)
TableOps == {"re.diff", "ite"}
TableTerms == {re_mk_full_char, re_mk_to_re(mk_string(<<49>>))}
TableKeys == {op_entry(op, a, b, null) : op \in TableOps, a \in TableTerms, b \in TableTerms}

TableRet(st, key, result, log, lost, size) ==
    [st |-> st, key |-> key, result |-> result, log |-> log, lost |-> lost, size |-> size]

InitTable ==
    /\ IdleEq
    /\ IdleEx
    /\ m_op_cache = {}
    /\ find_stores \in BOOLEAN
    /\ arg_order = "ltr"
    /\ m_coalesce_chars = TRUE
    /\ m_sa = FALSE
    /\ re_r = re_mk_empty
    /\ re_b = re_mk_empty
    /\ re_ops = 0
    /\ re_call = NoCall
    /\ app_f = "op_cache"
    /\ app_args = <<>>
    /\ app_call = TableRet("none", null, null, {}, FALSE, 0)

\* m_op_cache.insert(op, a, b, c, r)
CacheInsert ==
    /\ app_f = "op_cache"
    /\ \E key \in TableKeys, r \in TableTerms :
          LET table == insert(m_op_cache, key[1], key[2], key[3], key[4], r)
              lost == \E x \in m_op_cache : x.k # key /\ x \notin table
              log == IF lost THEN {} ELSE {x \in app_call.log : x.k # key}
          IN /\ m_op_cache' = table
             /\ app_call' = TableRet("insert", key, r, log \cup {[k |-> key, r |-> r]},
                                     lost, Cardinality(m_op_cache))
    /\ UNCHANGED <<app_f, app_args, re_r, re_b, re_ops, re_call>>
    /\ UNCHANGED <<eqVars, cfgVars, exVars>>

\* m_op_cache.find(op, a, b, c)
CacheFind ==
    /\ app_f = "op_cache"
    /\ \E key \in TableKeys :
          app_call' = TableRet("find", key,
                               find(m_op_cache, key[1], key[2], key[3], key[4]),
                               app_call.log, FALSE, Cardinality(m_op_cache))
    /\ UNCHANGED <<app_f, app_args>>
    /\ UNCHANGED <<eqVars, cfgVars, reVars, exVars>>

NextTable == CacheInsert \/ CacheFind

SpecTable == InitTable /\ [][NextTable]_vars

\* no entry is dropped on its own: an insert that drops an entry under
\* another key leaves the new entry alone in the table, and otherwise every
\* entry inserted since is in the table
TableWholesale ==
    app_call.st = "insert" =>
        IF app_call.lost
        THEN m_op_cache = {[k |-> app_call.key, r |-> app_call.result]}
        ELSE app_call.log \subseteq m_op_cache

TableBounded == Cardinality(m_op_cache) <= m_max_cache_size

\* C20: a key inserted since the last reset is found with the result it was
\* inserted with; entries are dropped only all at once, and only when the
\* table held more than m_max_cache_size entries; the table never holds more
\* than m_max_cache_size entries.
C20_FoundUntilOverflow ==
    app_f = "op_cache" =>
        /\ app_call.st = "find" =>
              \A x \in app_call.log : x.k = app_call.key => app_call.result = x.r
        /\ TableWholesale
        /\ (app_call.st = "insert" /\ app_call.lost) => app_call.size > m_max_cache_size
        /\ TableBounded

\* what holds of the table: find returns the inserted result or nothing,
\* and the table is emptied by the insert that finds it full
TableKeptUntilFull ==
    app_f = "op_cache" =>
        /\ app_call.st = "find" =>
              \A x \in app_call.log : x.k = app_call.key =>
                  \/ app_call.result = x.r
                  \/ ~find_stores /\ app_call.result = null
        /\ app_call.st = "find" /\ find_stores /\ app_call.result # null =>
              \E x \in app_call.log : x.k = app_call.key
        /\ TableWholesale
        /\ (app_call.st = "insert" /\ app_call.lost) => app_call.size = m_max_cache_size
        /\ (app_call.st = "insert" /\ app_call.size = m_max_cache_size) => m_op_cache = app_call.log
        /\ TableBounded

(***************************************************************************)
(* Specification SpecConcat: a concatenation tree is rewritten bottom-up   *)
(* by mk_seq_concat until no concatenation in it is rewritten any more.    *)
(***************************************************************************)
MaxLeaves == 4       \* leaves of the concatenation tree that is normalised

ConcatLeaves ==
    { mk_empty, mk_string(<<>>), mk_string(<<49>>), mk_unit(<<"c", 45>>),
      mk_unit(CharVar), <<"var", 1>> }

RECURSIVE ConcatTrees(_)
ConcatTrees(n) ==
    IF n = 1 THEN ConcatLeaves
    ELSE UNION {{mk_concat2(x, y) : x \in ConcatTrees(i), y \in ConcatTrees(n - i)} :
                i \in 1..(n - 1)}

\* the terms one bottom-up step away: mk_seq_concat is applied to a
\* concatenation none of whose sub-terms it rewrites
RECURSIVE concat_steps(_)
concat_steps(t) ==
    IF ~is_concat(t) THEN {}
    ELSE LET below == {mk_concat2(x, t[3]) : x \in concat_steps(t[2])}
                      \cup {mk_concat2(t[2], y) : y \in concat_steps(t[3])}
             r == mk_seq_concat_br(t[2], t[3])
         IN IF below # {} THEN below
            ELSE IF r.st = "BR_FAILED" THEN {} ELSE {r.result}

RECURSIVE leaves(_)
leaves(t) == IF is_concat(t) THEN leaves(t[2]) \o leaves(t[3]) ELSE <<t>>

RECURSIVE right_associated(_)
right_associated(t) ==
    is_concat(t) => (~is_concat(t[2]) /\ right_associated(t[3]))

ConRet(st, result, steps) == [st |-> st, result |-> result, steps |-> steps]

InitConcat ==
    /\ IdleEq
    /\ IdleEx
    /\ m_op_cache = {}
    /\ find_stores = TRUE
    /\ arg_order = "ltr"
    /\ m_coalesce_chars \in BOOLEAN
    /\ m_sa = FALSE
    /\ re_r = re_mk_empty
    /\ re_b = re_mk_empty
    /\ re_ops = 0
    /\ re_call = NoCall
    /\ app_f = "seq.++"
    /\ \E n \in 1..MaxLeaves : \E t \in ConcatTrees(n) : app_args = <<t>>
    /\ app_call = ConRet("start", app_args[1], 0)

\* one application of mk_seq_concat that is not BR_FAILED
MkSeqConcat ==
    /\ app_f = "seq.++"
    /\ \E t \in concat_steps(app_call.result) :
          app_call' = ConRet("rewritten", t, app_call.steps + 1)
    /\ UNCHANGED <<app_f, app_args>>
    /\ UNCHANGED <<eqVars, cfgVars, reVars, exVars>>

\* mk_seq_concat is BR_FAILED on every concatenation of the term
ConcatNoMatch ==
    /\ app_f = "seq.++"
    /\ app_call.st # "BR_FAILED"
    /\ concat_steps(app_call.result) = {}
    /\ app_call' = ConRet("BR_FAILED", app_call.result, app_call.steps)
    /\ UNCHANGED <<app_f, app_args>>
    /\ UNCHANGED <<eqVars, cfgVars, reVars, exVars>>

NextConcat == MkSeqConcat \/ ConcatNoMatch

SpecConcat == InitConcat /\ [][NextConcat]_vars

ConcatEnvs ==
    {[cv |-> <<c>>, sv |-> <<s, <<>>>>, iv |-> 0] : c \in Alphabet, s \in StringsUpTo(MaxVarLen)}

ConcatNormal(t) ==
    LET es == leaves(t)
    IN /\ right_associated(t)
       /\ Len(es) > 1 => \A i \in 1..Len(es) : ~is_empty(es[i])
       /\ m_coalesce_chars =>
             \A i \in 1..(Len(es) - 1) : ~(is_string(es[i]) /\ is_string(es[i + 1]))

\* C21: the rewriting of a concatenation tree by mk_seq_concat ends after
\* at most as many steps as twice the tree's leaves, and the term it ends
\* with is right-associated, has no empty operand, has no two adjacent
\* string literals when characters are coalesced, and denotes the same
\* sequence as the tree under every assignment.
C21_ConcatNormalForm ==
    app_f = "seq.++" =>
        /\ app_call.steps <= 2 * Len(leaves(app_args[1]))
        /\ \A env \in ConcatEnvs :
              EvalSeq(app_call.result, env) = EvalSeq(app_args[1], env)
        /\ app_call.st = "BR_FAILED" => ConcatNormal(app_call.result)

\* a left-nested tree with an empty operand and two literals has been
\* normalised with coalescing
C21_Witness ==
    /\ app_f = "seq.++"
    /\ m_coalesce_chars
    /\ app_call.st = "BR_FAILED"
    /\ app_call.steps >= 3
    /\ is_concat(app_args[1]) /\ is_concat(app_args[1][2])
    /\ \E i \in 1..Len(leaves(app_args[1])) : is_empty(leaves(app_args[1])[i])
    /\ app_call.result = mk_concat2(mk_string(<<49, 49>>), <<"var", 1>>)

(***************************************************************************)
(* Specification SpecStoiAgain: (str.to_int a) is rewritten, and after a   *)
(* BR_REWRITE_FULL the str.to_int sub-terms of the result are dispatched   *)
(* in turn.  A term waiting to be dispatched is kept with its ancestry:    *)
(* the arguments whose rewriting produced it, from a on.                   *)
(***************************************************************************)
MaxStoiLeaves == 3   \* leaves of the argument of str.to_int

StoiLeaves ==
    { mk_unit(<<"c", 48>>), mk_unit(<<"c", 45>>), mk_unit(CharVar),
      mk_string(<<>>), mk_string(<<49>>) }

RECURSIVE StoiTrees(_)
StoiTrees(n) ==
    IF n = 1 THEN StoiLeaves
    ELSE UNION {{mk_concat2(x, y) : x \in StoiTrees(i), y \in StoiTrees(n - i)} :
                i \in 1..(n - 1)}

\* the arguments of the str.to_int sub-terms of t
RECURSIVE stoi_args(_)
stoi_args(t) ==
    LET ts == subterms(t)
    IN (IF t[1] = "str.to_int" THEN {t[2]} ELSE {})
       \cup UNION {stoi_args(ts[i]) : i \in 1..Len(ts)}

StoiRet(st, result, path, todo) ==
    [st |-> st, result |-> result, path |-> path, todo |-> todo]

\* an argument occurs twice in the ancestry
Repeats(path) == \E i, j \in 1..Len(path) : i < j /\ path[i] = path[j]

InitStoiAgain ==
    /\ IdleEq
    /\ IdleRe
    /\ IdleEx
    /\ app_f = "str.to_int*"
    /\ \E n \in 1..MaxStoiLeaves : \E a \in StoiTrees(n) : app_args = <<a>>
    /\ app_call = StoiRet("none", null, <<>>, {<<app_args[1]>>})

\* mk_str_stoi on a waiting term whose ancestry does not repeat
StoiDispatch ==
    /\ app_f = "str.to_int*"
    /\ \E path \in app_call.todo :
          LET r == mk_str_stoi(Last(path))
              again == IF r.st = "BR_REWRITE_FULL"
                       THEN {Append(path, x) : x \in stoi_args(r.result)}
                       ELSE {}
          IN /\ ~Repeats(path)
             /\ app_call' = StoiRet(r.st, r.result, path,
                                    (app_call.todo \ {path}) \cup again)
    /\ UNCHANGED <<app_f, app_args>>
    /\ UNCHANGED <<eqVars, cfgVars, reVars, exVars>>

NextStoiAgain == StoiDispatch

SpecStoiAgain == InitStoiAgain /\ [][NextStoiAgain]_vars

\* C22: the rewriting of (str.to_int a) never has to dispatch str.to_int
\* on an argument whose own rewriting produced it; in particular the
\* result for a unit of a symbolic character does not contain
\* str.to_int of that unit.
C22_StoiNeverReproducesItself ==
    app_f = "str.to_int*" =>
        /\ \A path \in app_call.todo : ~Repeats(path)
        /\ (app_call.st = "BR_REWRITE_FULL" /\ app_call.path = <<mk_unit(CharVar)>>) =>
              mk_unit(CharVar) \notin stoi_args(app_call.result)

\* the arguments whose rewriting ends: those without a symbolic character
StoiEndsWithoutSymbols ==
    app_f = "str.to_int*" =>
        ((\A i \in 1..Len(leaves(app_args[1])) : leaves(app_args[1])[i] # mk_unit(CharVar))
            => \A path \in app_call.todo : ~Repeats(path))

(***************************************************************************)
(* Specification SpecItos: reduce_itos is called on the two operand lists  *)
(* of an equation.  app_args = <<ls, rs>>.                                 *)
(***************************************************************************)
MaxItosLen == 3      \* characters on the concrete side of the equation

\* '-', '0', '1', 'a'
ItosChars == {45, 48, 49, 97}

RECURSIVE ItosLiterals(_)
ItosLiterals(n) ==
    IF n = 0 THEN {<<>>}
    ELSE LET S == ItosLiterals(n - 1)
         IN S \cup {Append(s, c) : s \in {t \in S : Len(t) = n - 1}, c \in ItosChars}

\* the concrete sides: one literal, or a literal followed by a unit
ItosSides ==
    {<<>>}
    \cup {<<mk_string(s)>> : s \in ItosLiterals(MaxItosLen)}
    \cup {<<mk_string(s), mk_unit(<<"c", c>>)>> :
            s \in ItosLiterals(MaxItosLen - 1), c \in ItosChars}
    \cup {<<mk_string(<<49>>), <<"var", 1>>>>, <<mk_unit(CharVar)>>}

ItosLefts ==
    { <<mk_itos(IntVar)>>, <<mk_itos(IntVar), <<"var", 1>>>>, <<<<"var", 1>>>> }

InitItos ==
    /\ IdleEq
    /\ IdleRe
    /\ IdleEx
    /\ app_f = "reduce_itos"
    /\ \E ls \in ItosLefts, rs \in ItosSides : app_args = <<ls, rs>>
    /\ app_call = [st |-> "none", result |-> Res(TRUE, <<>>, <<>>, <<>>)]

ReduceItos ==
    /\ app_f = "reduce_itos"
    /\ app_call.st = "none"
    /\ app_call' = [st |-> "returned",
                    result |-> reduce_itos(app_args[1], app_args[2], <<>>)]
    /\ UNCHANGED <<app_f, app_args>>
    /\ UNCHANGED <<eqVars, cfgVars, reVars, exVars>>

\* the call is made again on the operand lists it left
ReduceItosAgain ==
    /\ app_f = "reduce_itos"
    /\ app_call.st = "returned"
    /\ app_call.result.ok
    /\ app_call' = [st |-> "again",
                    result |-> reduce_itos(app_call.result.ls, app_call.result.rs,
                                           app_call.result.eqs)]
    /\ UNCHANGED <<app_f, app_args>>
    /\ UNCHANGED <<eqVars, cfgVars, reVars, exVars>>

NextItos == ReduceItos \/ ReduceItosAgain

SpecItos == InitItos /\ [][NextItos]_vars

\* s is the decimal encoding of a non-negative integer: digits only, not
\* empty, no leading zero except for "0"
ValidDecimal(s) ==
    /\ s # <<>>
    /\ \A i \in 1..Len(s) : IsDigit(s[i])
    /\ Len(s) > 1 => s[1] # 48

\* one side is exactly itos(n) and the other is fully concrete
ItosCase ==
    /\ app_f = "reduce_itos"
    /\ app_call.st = "returned"
    /\ Len(app_args[1]) = 1 /\ is_itos(app_args[1][1])
    /\ is_string_n(app_args[2]).ok

\* C23: on itos(n) against a fully concrete side, reduce_itos equates n
\* with the parsed numeral and empties both sides if the literal is the
\* decimal encoding of a non-negative integer, and reports the equation
\* unsatisfiable otherwise.
C23_ItosIdentityOrFails ==
    ItosCase =>
        LET s == is_string_n(app_args[2]).s
            res == app_call.result
        IN IF ValidDecimal(s)
           THEN res = Res(TRUE, <<>>, <<>>,
                          <<<<IntVar, mk_numeral(DigitsValue(s, 0))>>>>)
           ELSE ~res.ok

\* what the code does in the case: it never reports unsatisfiable; it
\* equates exactly for the valid encodings and the valid encodings behind
\* a '-', and leaves the lists alone otherwise
ItosIdentityAsCoded ==
    ItosCase =>
        LET s == is_string_n(app_args[2]).s
            res == app_call.result
        IN /\ res.ok
           /\ ValidDecimal(s) =>
                 res = Res(TRUE, <<>>, <<>>, <<<<IntVar, mk_numeral(DigitsValue(s, 0))>>>>)
           /\ (s # <<>> /\ s[1] = 45 /\ ValidDecimal(Tail(s)) /\ s # <<45, 48>>) =>
                 res = Res(TRUE, <<>>, <<>>,
                           <<<<IntVar, mk_numeral(0 - DigitsValue(Tail(s), 0))>>>>)
           /\ (~ValidDecimal(s) /\ ~(s # <<>> /\ s[1] = 45 /\ ValidDecimal(Tail(s))
                                     /\ s # <<45, 48>>)) =>
                 res = Res(TRUE, app_args[1], app_args[2], <<>>)

(***************************************************************************)
(* Specification SpecOverlap: non_overlap is called on two patterns, each  *)
(* one literal or a list of units of character constants.                  *)
(***************************************************************************)
MaxPattern == 3      \* characters of a pattern

\* '-', '0', '1'
PatternChars == {45, 48, 49}

RECURSIVE PatternStrings(_)
PatternStrings(n) ==
    IF n = 0 THEN {<<>>}
    ELSE LET S == PatternStrings(n - 1)
         IN S \cup {Append(s, c) : s \in {t \in S : Len(t) = n - 1}, c \in PatternChars}

units_of(s) == [i \in 1..Len(s) |-> mk_unit(<<"c", s[i]>>)]

InitOverlap ==
    /\ IdleEq
    /\ IdleRe
    /\ IdleEx
    /\ app_f = "non_overlap"
    /\ \E s1 \in PatternStrings(MaxPattern), s2 \in PatternStrings(MaxPattern) :
          \/ app_args = <<<<mk_string(s1)>>, <<mk_string(s2)>>>>
          \/ Len(s1) > 0 /\ Len(s2) > 0 /\ app_args = <<units_of(s1), units_of(s2)>>
    /\ app_call = NoApp

NonOverlap ==
    /\ app_f = "non_overlap"
    /\ app_call.st = "none"
    /\ app_call' = ARet("returned", non_overlap(app_args[1], app_args[2]))
    /\ UNCHANGED <<app_f, app_args>>
    /\ UNCHANGED <<eqVars, cfgVars, reVars, exVars>>

\* the call with the patterns exchanged
NonOverlapExchanged ==
    /\ app_f = "non_overlap"
    /\ app_call.st = "none"
    /\ app_call' = ARet("exchanged", non_overlap(app_args[2], app_args[1]))
    /\ UNCHANGED <<app_f, app_args>>
    /\ UNCHANGED <<eqVars, cfgVars, reVars, exVars>>

NextOverlap == NonOverlap \/ NonOverlapExchanged

SpecOverlap == InitOverlap /\ [][NextOverlap]_vars

\* the characters of a pattern
PatternText(p) == is_string_n(p).s

\* s1 laid over s2 with its first character at position d of s2 (d may be
\* negative) agrees with s2 on a non-empty common part
AlignsAt(s1, s2, d) ==
    LET common == {i \in 1..Len(s1) : 1 <= i + d /\ i + d <= Len(s2)}
    IN common # {} /\ \A i \in common : s1[i] = s2[i + d]

CanOverlap(s1, s2) == \E d \in (0 - Len(s1))..Len(s2) : AlignsAt(s1, s2, d)

\* C24: non_overlap returns true only for patterns of which no alignment
\* of one over the other agrees on all the characters they have in common.
C24_TrueOnlyWithoutOverlap ==
    (app_f = "non_overlap" /\ app_call.st # "none" /\ app_call.result = TRUE) =>
        ~CanOverlap(PatternText(app_args[1]), PatternText(app_args[2]))

\* what the true answers do exclude: with p1 the first pattern of the call,
\* or the second if the first is longer, p1 does not occur in the other
\* pattern and no prefix of p1 ends it
TrueExcludesContainment ==
    (app_f = "non_overlap" /\ app_call.st # "none" /\ app_call.result = TRUE) =>
        LET first == IF app_call.st = "exchanged" THEN 2 ELSE 1
            s1 == PatternText(app_args[first])
            s2 == PatternText(app_args[3 - first])
            p1 == IF Len(s1) > Len(s2) THEN s2 ELSE s1
            p2 == IF Len(s1) > Len(s2) THEN s1 ELSE s2
        IN \A d \in 0..Len(p2) : ~AlignsAt(p1, p2, d)

(***************************************************************************)
(* Specification SpecSubseq: reduce_subsequence is called on two operand   *)
(* lists and the equalities accumulated so far.                            *)
(* app_args = <<ls, rs, eqs>>.                                             *)
(***************************************************************************)
MaxShort == 2        \* operands of the first list
MaxLong == 3         \* operands of the second list

SubseqOperands ==
    { mk_unit(<<"c", 45>>), mk_unit(CharVar), mk_string(<<49>>), mk_empty,
      <<"var", 1>>, <<"var", 2>> }

RECURSIVE SubseqLists(_)
SubseqLists(n) ==
    IF n = 0 THEN {<<>>}
    ELSE LET S == SubseqLists(n - 1)
         IN S \cup {Append(s, e) : s \in {t \in S : Len(t) = n - 1}, e \in SubseqOperands}

InitSubseq ==
    /\ IdleEq
    /\ IdleRe
    /\ IdleEx
    /\ app_f = "reduce_subsequence"
    /\ \E ls \in SubseqLists(MaxShort), rs \in SubseqLists(MaxLong),
          eqs \in {<<>>, <<<<mk_empty, <<"var", 2>>>>>>} :
          app_args = <<ls, rs, eqs>>
    /\ app_call = [st |-> "none", result |-> Res(TRUE, <<>>, <<>>, <<>>)]

ReduceSubsequence ==
    /\ app_f = "reduce_subsequence"
    /\ app_call.st = "none"
    /\ app_call' = [st |-> "returned",
                    result |-> reduce_subsequence(app_args[1], app_args[2], app_args[3])]
    /\ UNCHANGED <<app_f, app_args>>
    /\ UNCHANGED <<eqVars, cfgVars, reVars, exVars>>

\* the call with the longer list first
ReduceSubsequenceExchanged ==
    /\ app_f = "reduce_subsequence"
    /\ app_call.st = "none"
    /\ app_call' = [st |-> "returned",
                    result |-> reduce_subsequence(app_args[2], app_args[1], app_args[3])]
    /\ UNCHANGED <<app_f, app_args>>
    /\ UNCHANGED <<eqVars, cfgVars, reVars, exVars>>

NextSubseq == ReduceSubsequence \/ ReduceSubsequenceExchanged

SpecSubseq == InitSubseq /\ [][NextSubseq]_vars

SubseqReturned == app_f = "reduce_subsequence" /\ app_call.st = "returned"

\* the side with fewer operands and the other one
ShortSide == IF Len(app_args[1]) <= Len(app_args[2]) THEN app_args[1] ELSE app_args[2]
LongSide == IF Len(app_args[1]) <= Len(app_args[2]) THEN app_args[2] ELSE app_args[1]

\* the ways to give every operand of ls a position of rs of its own that
\* holds the operand itself or, for a unit, a unit
Matchings(ls, rs) ==
    {f \in [1..Len(ls) -> 1..Len(rs)] :
        /\ \A i, j \in 1..Len(ls) : i # j => f[i] # f[j]
        /\ \A i \in 1..Len(ls) :
              ls[i] = rs[f[i]] \/ (is_unit(ls[i]) /\ is_unit(rs[f[i]]))}

\* the unmatched operands of rs under f, in order
Unmatched(ls, rs, f) ==
    LET at(i) == rs[i]
        free(i) == \A k \in 1..Len(ls) : f[k] # i
        pos == SelectSeq([i \in 1..Len(rs) |-> i], free)
    IN [k \in 1..Len(pos) |-> at(pos[k])]

\* the matched operands of rs under f, in order
Residue(ls, rs, f) ==
    LET at(i) == rs[i]
        taken(i) == \E k \in 1..Len(ls) : f[k] = i
        pos == SelectSeq([i \in 1..Len(rs) |-> i], taken)
    IN [k \in 1..Len(pos) |-> at(pos[k])]

\* the equalities of the operands es with the empty sequence; an operand
\* that is the empty sequence gets none
EmptyEqs(es) ==
    LET open(e) == ~is_empty(e)
        sel == SelectSeq(es, open)
    IN [k \in 1..Len(sel) |-> <<mk_empty, sel[k]>>]

CannotBeEmpty(e) == is_unit(e) \/ (is_string(e) /\ e[2] # <<>>)

SubseqUnchanged ==
    /\ app_call.result.ok
    /\ <<app_call.result.ls, app_call.result.rs>> \in
          {<<ShortSide, LongSide>>, <<LongSide, ShortSide>>}
    /\ app_call.result.eqs = app_args[3]

\* the effect of the step under the matching f; the equality of the two
\* residues is emitted if residue_eq
SubseqEffect(f, residue_eq) ==
    LET un == Unmatched(ShortSide, LongSide, f)
        res == app_call.result
    IN IF \E k \in 1..Len(un) : CannotBeEmpty(un[k])
       THEN ~res.ok
       ELSE /\ res.ok
            /\ res.ls = <<>> /\ res.rs = <<>>
            /\ res.eqs = app_args[3] \o EmptyEqs(un)
                         \o (IF residue_eq
                             THEN <<<<mk_concat(ShortSide),
                                      mk_concat(Residue(ShortSide, LongSide, f))>>>>
                             ELSE <<>>)

\* C25 as stated: when one side is shorter and each of its operands has a
\* match of its own on the longer side, the unmatched operands of the longer
\* side are equated with the empty sequence (a failure if one is a unit or
\* a non-empty literal), one equality between the shorter side and the
\* matched residue is emitted and both sides are emptied; when an operand
\* has no match the step succeeds and changes nothing.
C25_StatedSubsequence ==
    (SubseqReturned /\ Len(ShortSide) < Len(LongSide)) =>
        IF Matchings(ShortSide, LongSide) = {} THEN SubseqUnchanged
        ELSE \E f \in Matchings(ShortSide, LongSide) : SubseqEffect(f, TRUE)

\* the step does nothing on an empty side against a single operand
SubseqTrivial == ShortSide = <<>> /\ Len(LongSide) = 1

\* C25: as stated, except that the step succeeds and changes nothing when
\* the sides have as many operands or when one side is empty and the other
\* has a single operand, and that no equality between the residues is
\* emitted when the shorter side is empty.
C25_SubsequenceStep ==
    SubseqReturned =>
        IF Len(ShortSide) = Len(LongSide) \/ SubseqTrivial
              \/ Matchings(ShortSide, LongSide) = {}
        THEN SubseqUnchanged
        ELSE \E f \in Matchings(ShortSide, LongSide) : SubseqEffect(f, ShortSide # <<>>)

\* a unit and a symbolic sequence are matched out of order, the unmatched
\* symbolic sequence is equated with the empty sequence
C25_Witness ==
    /\ SubseqReturned
    /\ ShortSide = <<mk_unit(CharVar), <<"var", 1>>>>
    /\ LongSide = <<<<"var", 1>>, <<"var", 2>>, mk_unit(<<"c", 45>>)>>
    /\ app_args[3] # <<>>
    /\ app_call.result.ok
    /\ app_call.result.ls = <<>>
    /\ Len(app_call.result.eqs) = 3

(***************************************************************************)
(* mk_re_loop on the loop term r with one argument: the bounds are the     *)
(* parameters of the declaration (np of them).  The products stay below    *)
(* 2^32 for the bounds of the model.                                       *)
(***************************************************************************)
mk_re_loop(r) ==
    LET arg == r[2]
        np == Len(r) - 2
        lo2 == r[3]
        hi2 == IF np > 1 THEN r[4] ELSE lo2
    IN IF np = 2 /\ lo2 > hi2 THEN ARet("BR_DONE", re_mk_empty)
       ELSE IF np = 2 /\ hi2 = 0 THEN ARet("BR_DONE", re_mk_to_re(mk_empty))
       ELSE IF re_is_loop1(arg) /\ np = 1
       THEN ARet("BR_REWRITE1", re_mk_loop1(arg[2], lo2 * arg[3]))
       ELSE IF re_is_loop2(arg) /\ np = 2 /\ arg[3] = arg[4] /\ lo2 = hi2
       THEN ARet("BR_REWRITE1", re_mk_loop2(arg[2], lo2 * arg[3], hi2 * arg[4]))
       ELSE IF np = 2 /\ lo2 = 1 /\ hi2 = 1 THEN ARet("BR_DONE", arg)
       ELSE IF np = 1 /\ lo2 = 0 THEN ARet("BR_REWRITE1", re_mk_star(arg))
       ELSE IF np > 0 /\ is_ite(arg)
       THEN ARet("BR_REWRITE2",
                 IF np = 1
                 THEN mk_ite(arg[2], re_mk_loop1(arg[3], lo2), re_mk_loop1(arg[4], lo2))
                 ELSE mk_ite(arg[2], re_mk_loop2(arg[3], lo2, hi2),
                             re_mk_loop2(arg[4], lo2, hi2)))
       ELSE ARet("BR_FAILED", null)

(***************************************************************************)
(* Specification SpecLoopAut: the bounded loop of a regex is compiled to   *)
(* an automaton, as it is or after mk_re_loop has rewritten it.            *)
(* app_args = <<a, lo, hi>>.                                               *)
(***************************************************************************)
LoopBases ==
    InLeaves \cup {<<op, x>> : op \in {"re.*", "re.opt"}, x \in InLeaves}

InitLoopAut ==
    /\ IdleEq
    /\ IdleRe
    /\ IdleEx
    /\ app_f = "re.loop"
    /\ \E a \in LoopBases, lo \in 0..MaxLoop, hi \in 0..MaxLoop : app_args = <<a, lo, hi>>
    /\ app_call = NoApp

LoopTerm == re_mk_loop2(app_args[1], app_args[2], app_args[3])

\* re2automaton on the loop
CompileLoop ==
    /\ app_f = "re.loop"
    /\ app_call.st = "none"
    /\ app_call' = ARet("compiled", re2aut(LoopTerm, m_sa))
    /\ UNCHANGED <<app_f, app_args>>
    /\ UNCHANGED <<eqVars, cfgVars, reVars, exVars>>

\* mk_re_loop on the loop, then re2automaton on what it left
RewriteLoop ==
    /\ app_f = "re.loop"
    /\ app_call.st = "none"
    /\ LET r == mk_re_loop(LoopTerm)
       IN app_call' = ARet("rewritten",
                           re2aut(IF r.st = "BR_FAILED" THEN LoopTerm ELSE r.result, m_sa))
    /\ UNCHANGED <<app_f, app_args>>
    /\ UNCHANGED <<eqVars, cfgVars, reVars, exVars>>

NextLoopAut == CompileLoop \/ RewriteLoop

SpecLoopAut == InitLoopAut /\ [][NextLoopAut]_vars

\* the concatenations of k words of L, up to MaxWord characters
RECURSIVE PowLang(_, _)
PowLang(L, k) ==
    IF k = 0 THEN {<<>>}
    ELSE {u \o v : u \in L, v \in PowLang(L, k - 1)} \cap AutWords

LoopLang(L, lo, hi) == UNION {PowLang(L, k) : k \in lo..hi}

LoopCompiled == app_f = "re.loop" /\ app_call.st # "none"

\* C26: the automaton of loop[lo,hi] over a accepts the concatenations of k
\* words of L(a) with lo <= k <= hi and nothing else, for all lo and hi: in
\* particular nothing when lo > hi, as does the automaton of what
\* mk_re_loop rewrites the loop to.
C26_LoopAutomatonExact ==
    LoopCompiled =>
        app_call.result[2] =
            LoopLang(re2aut(app_args[1], m_sa)[2], app_args[2], app_args[3])

\* the automaton is exact when lo <= hi, and after the rewriting
LoopAutomatonOrdered ==
    (LoopCompiled /\ (app_args[2] <= app_args[3] \/ app_call.st = "rewritten")) =>
        app_call.result[2] =
            LoopLang(re2aut(app_args[1], m_sa)[2], app_args[2], app_args[3])

\* for lo > hi the automaton compiled from the loop accepts the
\* concatenations of lo words
LoopAutomatonUnordered ==
    (LoopCompiled /\ app_args[2] > app_args[3] /\ app_call.st = "compiled") =>
        app_call.result[2] = PowLang(re2aut(app_args[1], m_sa)[2], app_args[2])

(***************************************************************************)
(* Specification SpecLengths: compare_lengths is called on two operand     *)
(* lists, and mk_seq_index on their concatenations.                        *)
(* app_args = <<as, bs, c>>.                                               *)
(***************************************************************************)
MaxCmpLen == 3       \* operands of a list whose length is compared

CmpOperands ==
    { mk_unit(<<"c", 45>>), mk_unit(CharVar), <<"var", 1>>, <<"var", 2>> }

RECURSIVE CmpLists(_)
CmpLists(n) ==
    IF n = 0 THEN {<<>>}
    ELSE LET S == CmpLists(n - 1)
         IN S \cup {Append(s, e) : s \in {t \in S : Len(t) = n - 1}, e \in CmpOperands}

InitLengths ==
    /\ IdleEq
    /\ IdleRe
    /\ IdleEx
    /\ app_f = "compare_lengths"
    /\ \E as \in CmpLists(MaxCmpLen), bs \in CmpLists(MaxCmpLen), c \in {zero, one} :
          app_args = <<as, bs, c>>
    /\ app_call = NoApp

CompareLengths ==
    /\ app_f = "compare_lengths"
    /\ app_call.st = "none"
    /\ app_call' = ARet("compared", compare_lengths(app_args[1], app_args[2]))
    /\ UNCHANGED <<app_f, app_args>>
    /\ UNCHANGED <<eqVars, cfgVars, reVars, exVars>>

\* mk_seq_index(s, t, c) with s and t the concatenations of the lists
IndexOfLists ==
    /\ app_f = "compare_lengths"
    /\ app_call.st = "none"
    /\ app_call' = mk_seq_index(mk_concat(app_args[1]), mk_concat(app_args[2]),
                                app_args[3])
    /\ UNCHANGED <<app_f, app_args>>
    /\ UNCHANGED <<eqVars, cfgVars, reVars, exVars>>

NextLengths == CompareLengths \/ IndexOfLists

SpecLengths == InitLengths /\ [][NextLengths]_vars

CmpEnvs ==
    {[cv |-> <<ch>>, sv |-> <<s1, s2>>, iv |-> 0] :
        ch \in Alphabet, s1 \in StringsUpTo(MaxVarLen), s2 \in StringsUpTo(MaxVarLen)}

\* C27: compare_lengths answers shorter, longer or same length only if the
\* lengths of the two lists compare that way under every assignment, and
\* mk_seq_index answers -1 only if t occurs nowhere in s from the start
\* position on; from start 0 it does so on the basis of the lengths only if
\* t is longer than s under every assignment.
C27_CompareLengthsSound ==
    app_f = "compare_lengths" =>
        \A env \in CmpEnvs :
            LET s == EvalList(app_args[1], env)
                t == EvalList(app_args[2], env)
            IN /\ (app_call.st = "compared" /\ app_call.result = "shorter_c")
                     => Len(s) < Len(t)
               /\ (app_call.st = "compared" /\ app_call.result = "longer_c")
                     => Len(s) > Len(t)
               /\ (app_call.st = "compared" /\ app_call.result = "same_length_c")
                     => Len(s) = Len(t)
               /\ (app_call.st = "BR_DONE" /\ app_call.result = minus_one)
                     => /\ IndexOf(s, t, numeral(app_args[3])) = rational(-1)
                        /\ app_args[3] = zero => Len(s) < Len(t)

\* a symbolic sequence on both sides is cancelled and the units decide
C27_Witness ==
    /\ app_f = "compare_lengths"
    /\ app_args[1] = <<<<"var", 1>>, mk_unit(CharVar)>>
    /\ app_args[2] = <<mk_unit(<<"c", 45>>), <<"var", 1>>, mk_unit(CharVar)>>
    /\ app_args[3] = zero
    /\ app_call = ARet("BR_DONE", minus_one)

(***************************************************************************)
(* Specification SpecNested: mk_re_loop is called on a loop whose argument *)
(* is itself a loop, and once more on the loop it leaves.                  *)
(* app_args = <<a, inner, outer>>, inner and outer being the one or two    *)
(* bounds of the inner and of the outer loop.                              *)
(***************************************************************************)
MaxNestedWord == 4   \* length of the words matched against a nested loop

LoopBounds ==
    {<<lo>> : lo \in 0..MaxLoop} \cup {<<lo, hi>> : lo \in 0..MaxLoop, hi \in 0..MaxLoop}

MkLoop(a, bs) ==
    IF Len(bs) = 1 THEN re_mk_loop1(a, bs[1]) ELSE re_mk_loop2(a, bs[1], bs[2])

InitNested ==
    /\ IdleEq
    /\ IdleRe
    /\ IdleEx
    /\ app_f = "re.loop.nested"
    /\ \E a \in LoopBases, inner \in LoopBounds, outer \in LoopBounds :
          app_args = <<a, inner, outer>>
    /\ app_call = NoApp

NestedTerm == MkLoop(MkLoop(app_args[1], app_args[2]), app_args[3])

MkReLoop ==
    /\ app_f = "re.loop.nested"
    /\ app_call.st = "none"
    /\ app_call' = mk_re_loop(NestedTerm)
    /\ UNCHANGED <<app_f, app_args>>
    /\ UNCHANGED <<eqVars, cfgVars, reVars, exVars>>

\* BR_REWRITE1: the loop left as result is rewritten by mk_re_loop in turn
MkReLoopAgain ==
    /\ app_f = "re.loop.nested"
    /\ app_call.st = "BR_REWRITE1"
    /\ re_is_loop1(app_call.result) \/ re_is_loop2(app_call.result)
    /\ LET r == mk_re_loop(app_call.result)
       IN app_call' = ARet("rewritten",
                           IF r.st = "BR_FAILED" THEN app_call.result ELSE r.result)
    /\ UNCHANGED <<app_f, app_args>>
    /\ UNCHANGED <<eqVars, cfgVars, reVars, exVars>>

NextNested == MkReLoop \/ MkReLoopAgain

SpecNested == InitNested /\ [][NextNested]_vars

NestedWords == StringsUpTo(MaxNestedWord)

SameLanguage(r1, r2) ==
    \A w \in NestedWords : Matches(r1, w, GroundEnv) <=> Matches(r2, w, GroundEnv)

\* (loop (loop a lo) lo2)
NestedLower == Len(app_args[2]) = 1 /\ Len(app_args[3]) = 1

\* (loop (loop a l l) h h)
NestedExact ==
    /\ Len(app_args[2]) = 2 /\ app_args[2][1] = app_args[2][2]
    /\ Len(app_args[3]) = 2 /\ app_args[3][1] = app_args[3][2]

NestedRewritten ==
    /\ app_f = "re.loop.nested"
    /\ app_call.st \notin {"none", "BR_FAILED"}

\* C28: for every base regex and all bounds, what mk_re_loop leaves for
\* (loop (loop a lo) lo2) and for (loop (loop a l l) h h) denotes the language
\* of the nested loop, lo2 = 0 included.
C28_NestedLoopsPreserve ==
    (NestedRewritten /\ (NestedLower \/ NestedExact)) =>
        SameLanguage(NestedTerm, app_call.result)

\* the rewrite of two exact loops keeps the language
NestedExactPreserves ==
    (NestedRewritten /\ NestedExact) => SameLanguage(NestedTerm, app_call.result)

\* two lower bounds are multiplied correctly unless the outer one is 0 and
\* the inner one above 1
NestedLowerPreserves ==
    (NestedRewritten /\ NestedLower /\ (app_args[3][1] > 0 \/ app_args[2][1] <= 1)) =>
        SameLanguage(NestedTerm, app_call.result)

(***************************************************************************)
(* Meaning of combine_ites (specification SpecIte): the leaf a term in BDD *)
(* form selects under a truth assignment to the conditions.                *)
(***************************************************************************)
TruthAssignments == [1..MaxCond -> BOOLEAN]

RECURSIVE SelectLeaf(_, _)
SelectLeaf(t, bv) ==
    IF is_ite(t)
    THEN IF bv[get_id(t[2])] THEN SelectLeaf(t[3], bv) ELSE SelectLeaf(t[4], bv)
    ELSE t

CombinedBdds == re_call.op = "combine_ites" /\ is_bdd(re_r) /\ is_bdd(re_b)

\* C29: for every operator, all operands a and b in BDD form and every truth
\* assignment to the conditions, the result of combine_ites(op, a, b, nullptr)
\* selects op applied to the leaves a and b select, and the result of
\* combine_ites(ITE, a, b, cond) selects the leaf of a where cond holds and
\* the leaf of b where it does not; an inner if-then-else on the same
\* condition gives its then-branch on the then side and its else-branch on
\* the else side.
C29_CombineItesPreserves ==
    CombinedBdds =>
        \A bv \in TruthAssignments :
            SelectLeaf(re_call.result, bv) =
                IF re_call.k = "ite"
                THEN IF bv[get_id(re_call.cond)] THEN SelectLeaf(re_r, bv)
                     ELSE SelectLeaf(re_b, bv)
                ELSE <<re_call.k, SelectLeaf(re_r, bv), SelectLeaf(re_b, bv)>>

\* both operands test the condition of the call: the then-branch of the
\* first and the else-branch of the second are kept
C29_Witness ==
    /\ re_call.op = "combine_ites"
    /\ re_call.k = "ite"
    /\ is_ite(re_r) /\ re_r[2] = re_call.cond /\ re_r[3] # re_r[4]
    /\ is_ite(re_b) /\ re_b[2] = re_call.cond /\ re_b[3] # re_b[4]
    /\ is_bdd(re_r) /\ is_bdd(re_b)
    /\ is_ite(re_r[3]) /\ re_r[4] = re_b[3]
    /\ re_call.result = mk_ite(re_call.cond, re_r[3], re_b[4])

(***************************************************************************)
(* Emptiness of a regex: reduce_re_eq and reduce_re_is_empty               *)
(***************************************************************************)
eq_empty(r) == mk_eq(r, re_mk_empty)

is_char_literal(s) == is_string(s) /\ Len(s[2]) = 1

reduce_re_is_empty(r) ==
    IF r[1] = "re.union"
    THEN ARet("BR_REWRITE2", m_mk_and(eq_empty(r[2]), eq_empty(r[3])))
    ELSE IF r[1] \in {"re.*", "str.to_re", "re.allchar", "re.all"}
    THEN ARet("BR_DONE", mk_false)
    ELSE IF r[1] = "re.++"
    THEN ARet("BR_REWRITE2", mk_or(eq_empty(r[2]), eq_empty(r[3])))
    ELSE IF r[1] = "re.range" /\ is_char_literal(r[2]) /\ is_char_literal(r[3])
    THEN ARet("BR_DONE", IF r[2][2][1] <= r[3][2][1] THEN mk_true ELSE mk_false)
    ELSE IF (re_is_loop1(r) \/ re_is_loop2(r)) /\ r[3] = 0
    THEN ARet("BR_DONE", mk_false)
    ELSE IF re_is_loop1(r) \/ (re_is_loop2(r) /\ r[3] <= r[4])
    THEN ARet("BR_REWRITE1", eq_empty(r[2]))
    ELSE IF r[1] = "re.inter" /\ r[2][1] = "re.union"
    THEN ARet("BR_REWRITE3",
              eq_empty(re_mk_union(re_mk_inter(r[2][2], r[3]), re_mk_inter(r[2][3], r[3]))))
    ELSE IF r[1] = "re.inter" /\ r[3][1] = "re.union"
    THEN ARet("BR_REWRITE3",
              eq_empty(re_mk_union(re_mk_inter(r[3][2], r[2]), re_mk_inter(r[3][3], r[2]))))
    ELSE ARet("BR_FAILED", null)

reduce_re_eq(l, r) ==
    LET l1 == IF l = re_mk_empty THEN r ELSE l
        r1 == IF l = re_mk_empty THEN l ELSE r
    IN IF r1 = re_mk_empty THEN reduce_re_is_empty(l1)
       ELSE ARet("BR_FAILED", null)

(***************************************************************************)
(* Specification SpecEmpty: a regex is equated with the empty regex, on    *)
(* either side.  app_args = <<r>>.                                         *)
(***************************************************************************)
EmptyLeaves ==
    InLeaves \cup
    { re_mk_range(mk_string(<<49>>), mk_string(<<49>>)),
      re_mk_range(mk_string(<<45, 49>>), mk_string(<<49>>)) }

\* the operands of the union inside an intersection
EmptyUnionLeaves ==
    { re_mk_empty, re_mk_full_char, re_mk_to_re(mk_string(<<49>>)),
      re_mk_to_re(mk_string(<<45, 49>>)) }

EmptyRegexes ==
    EmptyLeaves
    \cup {<<op, x>> : op \in {"re.*", "re.+", "re.opt", "re.comp"}, x \in EmptyLeaves}
    \cup {<<op, x, y>> : op \in {"re.union", "re.++", "re.inter", "re.diff"},
                         x \in EmptyLeaves, y \in EmptyLeaves}
    \cup {re_mk_loop1(x, lo) : x \in EmptyLeaves, lo \in 0..MaxLoop}
    \cup {re_mk_loop2(x, lo, hi) : x \in EmptyLeaves, lo \in 0..MaxLoop, hi \in 0..MaxLoop}
    \cup {re_mk_inter(re_mk_union(x, y), z) :
            x \in EmptyUnionLeaves, y \in EmptyUnionLeaves, z \in EmptyLeaves}
    \cup {re_mk_inter(z, re_mk_union(x, y)) :
            x \in EmptyUnionLeaves, y \in EmptyUnionLeaves, z \in EmptyLeaves}

InitEmpty ==
    /\ IdleEq
    /\ IdleRe
    /\ IdleEx
    /\ app_f = "re.is_empty"
    /\ \E r \in EmptyRegexes : app_args = <<r>>
    /\ app_call = NoApp

\* r = re.empty
ReduceReEq ==
    /\ app_f = "re.is_empty"
    /\ app_call.st = "none"
    /\ app_call' = reduce_re_eq(app_args[1], re_mk_empty)
    /\ UNCHANGED <<app_f, app_args>>
    /\ UNCHANGED <<eqVars, cfgVars, reVars, exVars>>

\* re.empty = r
ReduceReEqExchanged ==
    /\ app_f = "re.is_empty"
    /\ app_call.st = "none"
    /\ app_call' = reduce_re_eq(re_mk_empty, app_args[1])
    /\ UNCHANGED <<app_f, app_args>>
    /\ UNCHANGED <<eqVars, cfgVars, reVars, exVars>>

NextEmpty == ReduceReEq \/ ReduceReEqExchanged

SpecEmpty == InitEmpty /\ [][NextEmpty]_vars

\* a non-empty language of a regex in bounds has a word of at most two
\* characters for each copy of a loop
EmptyWords == StringsUpTo(2 * MaxLoop)

IsEmptyLanguage(r) == \A w \in EmptyWords : ~Matches(r, w, GroundEnv)

\* truth of the boolean term returned, an equation with re.empty being true
\* when the language of the other side is empty
RECURSIVE EmptyTruth(_)
EmptyTruth(b) ==
    CASE b[1] = "true" -> TRUE
      [] b[1] = "false" -> FALSE
      [] b[1] = "and" -> EmptyTruth(b[2]) /\ EmptyTruth(b[3])
      [] b[1] = "or" -> EmptyTruth(b[2]) \/ EmptyTruth(b[3])
      [] b[1] = "=" -> IsEmptyLanguage(b[2])

EmptinessReduced ==
    /\ app_f = "re.is_empty"
    /\ app_call.st \notin {"none", "BR_FAILED"}

\* C30: whenever reduce_re_is_empty matches r, the boolean term it returns is
\* true if and only if the language of r is empty; for a range of two
\* one-character literals it is true exactly when lo > hi.
C30_EmptinessExact ==
    EmptinessReduced =>
        (EmptyTruth(app_call.result) <=> IsEmptyLanguage(app_args[1]))

\* every case but the range is exact
EmptinessExactBesidesRanges ==
    (EmptinessReduced /\ app_args[1][1] # "re.range") =>
        (EmptyTruth(app_call.result) <=> IsEmptyLanguage(app_args[1]))

\* for a range the term returned is true exactly when lo <= hi, that is
\* when the language is not empty
EmptinessOfRangeInverted ==
    (EmptinessReduced /\ app_args[1][1] = "re.range") =>
        /\ app_call.st = "BR_DONE"
        /\ app_call.result = mk_true <=> app_args[1][2][2][1] <= app_args[1][3][2][1]
        /\ app_call.result = mk_true <=> ~IsEmptyLanguage(app_args[1])
        /\ app_call.result \in {mk_true, mk_false}

====
